---------------------------- MODULE Spec2Model ----------------------------
(***************************************************************************)
(* A model of the pairs-trading engine of stat_arb:                        *)
(*   strategy/pairs.py          find_cointegrated_pairs, compute_spread,   *)
(*                              compute_zscore, generate_signals           *)
(*   portfolio/construction.py  build_weights                              *)
(*   backtest/engine.py         run_backtest                               *)
(*   strategy/scanner.py        _compute_pair_metrics, scan_pairs, and the *)
(*                              program that saves its report              *)
(*   live_feed/trader.py        PairPosition, load_pairs, compute_zscore,  *)
(*                              compute_shares, run_trader                 *)
(*   live_feed/alpaca_client.py execute_trade                              *)
(*   main.py, config.py         main and the provider it is configured for *)
(*   data/provider.py           get_provider                               *)
(*                                                                         *)
(* Floating-point quantities are modelled as exact rationals <<n, d>>      *)
(* with d > 0.  A z-score is (x - mean) / std with std a square root, so   *)
(* it is kept as its sign and its square p/q; every comparison the code    *)
(* makes with a threshold is decided exactly on those.                     *)
(***************************************************************************)
EXTENDS Integers, Sequences, FiniteSets, TLC

VARIABLES
    gs_in,       \* generate_signals: its arguments and the z series it computed
    gs_i,        \* generate_signals: sessions of the loop already processed
    gs_current,  \* generate_signals: the local `current`
    gs_pos,      \* generate_signals: the series `pos` written so far
    bw_in,       \* build_weights: its arguments
    bw_pc,       \* build_weights: the step it is at
    bw_weights,  \* build_weights: the table `weights`
    bw_rows,     \* the rows run_backtest records from the returned table
    bt_in,       \* run_backtest, per run: its arguments
    bt_start,    \* run_backtest, per run: the local `start`
    bt_results,  \* run_backtest, per run: the list `results`
    bt_pc,       \* run_backtest, per run: "loop", "returned", "raised" or "off"
    bt_df,       \* run_backtest, per run: the table returned
    bt_windows,  \* per run, history: the windows processed, with their pairs
    bt_wlog,     \* per run, history: session and weight row behind each result row
    coint_memo,  \* the p-values coint has given, per pair of series
    sc_in,       \* the scanner: its mode and arguments
    sc_pc,       \* the scanner: the step it is at
    sc_k,        \* scan_pairs: pairs tested, then candidates passed over
    sc_candidates, \* scan_pairs: the list `candidates`
    sc_selected, \* scan_pairs: the list `selected`; the list a scanner returns
    sc_count     \* scan_pairs: the dict `sector_count`

gs_vars == <<gs_in, gs_i, gs_current, gs_pos>>

bw_vars == <<bw_in, bw_pc, bw_weights, bw_rows>>

bt_vars == <<bt_in, bt_start, bt_results, bt_pc, bt_df, bt_windows, bt_wlog, coint_memo>>

sc_vars == <<sc_in, sc_pc, sc_k, sc_candidates, sc_selected, sc_count>>

\* live_feed/trader.py: run_trader and its PairPosition objects.
VARIABLES rt_pc, rt_tick, rt_positions, rt_hist, rt_files, rt_raised, rt_last

lv_vars == <<rt_pc, rt_tick, rt_positions, rt_hist, rt_files, rt_raised, rt_last>>

\* main.py: main, around run 1 of run_backtest.
VARIABLES mn_pc, mn_calls, mn_exit, mn_provider

mn_vars == <<mn_pc, mn_calls, mn_exit, mn_provider>>

\* The files the scanner program and load_pairs share, and what load_pairs
\* returned.
VARIABLES fs, pair_configs

ps_vars == <<fs, pair_configs>>

\* live_feed/alpaca_client.py: the paper account behind execute_trade.
VARIABLES br_done, br_orders, br_shares, br_legs

br_vars == <<br_done, br_orders, br_shares, br_legs>>

ext_vars == <<lv_vars, mn_vars, ps_vars, br_vars>>

vars == <<gs_vars, bw_vars, bt_vars, sc_vars, ext_vars>>

(***************************************************************************)
(* Arithmetic helpers                                                      *)
(***************************************************************************)
Abs(x) == IF x < 0 THEN -x ELSE x

Sign(x) == IF x < 0 THEN -1 ELSE IF x > 0 THEN 1 ELSE 0

Min(x, y) == IF x <= y THEN x ELSE y

RECURSIVE GCD(_, _)
GCD(a, b) == IF b = 0 THEN a ELSE GCD(b, a % b)

\* The rational n/d in lowest terms, d > 0.
Rat(n, d) ==
    LET s == IF d < 0 THEN -1 ELSE 1
        g == GCD(Abs(n), Abs(d))
    IN  <<(s * n) \div g, (s * d) \div g>>

RAdd(x, y) == Rat(x[1] * y[2] + y[1] * x[2], x[2] * y[2])
RSub(x, y) == Rat(x[1] * y[2] - y[1] * x[2], x[2] * y[2])
RMul(x, y) == Rat(x[1] * y[1], x[2] * y[2])
RDiv(x, y) == Rat(x[1] * y[2], x[2] * y[1])
RNeg(x)    == <<-x[1], x[2]>>
RAbs(x)    == <<Abs(x[1]), x[2]>>
RLe(x, y)  == x[1] * y[2] <= y[1] * x[2]
RLt(x, y)  == x[1] * y[2] < y[1] * x[2]
RInt(n)    == <<n, 1>>
RZero      == <<0, 1>>

RECURSIVE SeqSum(_)
SeqSum(s) == IF s = <<>> THEN 0 ELSE Head(s) + SeqSum(Tail(s))

\* A local variable: F at the value of e, e being evaluated once.
Let(e, F(_)) == CHOOSE v \in {F(x) : x \in {e}} : TRUE

\* A sequence given as a function, as the tuple of its elements.
Tup(f) == f \o <<>>

(***************************************************************************)
(* strategy/pairs.py: compute_spread, compute_zscore                       *)
(***************************************************************************)
\* price_a - hedge_ratio * price_b, per session.
compute_spread(pa, pb, hr) ==
    Tup([k \in 1..Len(pa) |-> RSub(RInt(pa[k]), RMul(hr, RInt(pb[k])))])

NaN == [nan |-> TRUE, sgn |-> 0, p |-> 0, q |-> 1]

\* A defined z-score: its sign and its square p/q.
ZVal(sgn, p, q) ==
    LET g == GCD(p, q)
    IN  [nan |-> FALSE, sgn |-> sgn, p |-> p \div g, q |-> q \div g]

\* (spread - rolling(lookback).mean()) / rolling(lookback).std() at session k.
\* The rolling window is undefined (NaN) until it holds `lookback` sessions; the
\* sample standard deviation (ddof = 1) needs lookback >= 2; a window of equal
\* values has std 0 and spread - mean 0, and 0/0 is NaN.
\* With the window's values x_j = n_j / D over a common denominator D:
\*   V = L * sum(n_j^2) - sum(n_j)^2,  d = L * n_k - sum(n_j),
\*   z = sign(d) * sqrt(d^2 * (L - 1) / (L * V)).
RECURSIVE CommonDenominator(_, _, _)
CommonDenominator(spread, j, k) ==
    IF j > k THEN 1
    ELSE Let(CommonDenominator(spread, j + 1, k),
             LAMBDA r : (r * spread[j][2]) \div GCD(r, spread[j][2]))

\* The numerators n_j of the window ending at session k.
WindowNumerators(spread, k, lookback) ==
    Let(CommonDenominator(spread, k - lookback + 1, k),
        LAMBDA D : Tup([j \in 1..lookback |->
                          spread[k - lookback + j][1] * (D \div spread[k - lookback + j][2])]))

\* The window of a session before the lookback is filled is completed with
\* zeros instead of being undefined.
ZScoreAtPadded(spread, k, lookback) ==
    IF lookback < 2 THEN NaN
    ELSE
        Let([j \in 1..(lookback - 1) |-> RZero] \o spread, LAMBDA padded :
        Let(WindowNumerators(padded, k + lookback - 1, lookback), LAMBDA w :
        Let(SeqSum(w), LAMBDA S :
        Let(lookback * SeqSum(Tup([j \in 1..lookback |-> w[j] * w[j]])) - S * S, LAMBDA V :
        Let(lookback * w[lookback] - S, LAMBDA d :
            IF V = 0 THEN NaN
            ELSE ZVal(Sign(d), d * d * (lookback - 1), lookback * V))))))

ZScoreAt(spread, k, lookback) ==
    IF k < lookback \/ lookback < 2 THEN NaN
    ELSE
        Let(WindowNumerators(spread, k, lookback), LAMBDA w :
        Let(SeqSum(w), LAMBDA S :
        Let(lookback * SeqSum(Tup([j \in 1..lookback |-> w[j] * w[j]])) - S * S, LAMBDA V :
        Let(lookback * w[lookback] - S, LAMBDA d :
            IF V = 0 THEN NaN
            ELSE ZVal(Sign(d), d * d * (lookback - 1), lookback * V)))))

compute_zscore(spread, lookback) ==
    Tup([k \in 1..Len(spread) |-> ZScoreAt(spread, k, lookback)])

\* z <= -t, z >= t and |z| <= t for a threshold t = <<n, d>> >= 0.
ZLeNeg(z, t) == z.sgn <= 0 /\ z.p * t[2] * t[2] >= t[1] * t[1] * z.q
ZGe(z, t)    == z.sgn >= 0 /\ z.p * t[2] * t[2] >= t[1] * t[1] * z.q
ZAbsLe(z, t) == z.p * t[2] * t[2] <= t[1] * t[1] * z.q

(***************************************************************************)
(* strategy/pairs.py: generate_signals, the per-pair state machine         *)
(***************************************************************************)
\* Lines 111-118: the new value of `current` on a session whose z is defined.
StepStateStrict(current, z, entry_z, exit_z) ==
    IF current = 0
    THEN IF z.sgn < 0 /\ ~ZAbsLe(z, entry_z) THEN 1
         ELSE IF z.sgn > 0 /\ ~ZAbsLe(z, entry_z) THEN -1
         ELSE current
    ELSE IF ZAbsLe(z, exit_z) THEN 0 ELSE current

StepStateReenter(current, z, entry_z, exit_z) ==
    IF ZLeNeg(z, entry_z) THEN 1
    ELSE IF ZGe(z, entry_z) THEN -1
    ELSE IF current # 0 /\ ZAbsLe(z, exit_z) THEN 0
    ELSE current

StepState(current, z, entry_z, exit_z) ==
    IF current = 0
    THEN IF ZLeNeg(z, entry_z) THEN 1
         ELSE IF ZGe(z, entry_z) THEN -1
         ELSE current
    ELSE IF ZAbsLe(z, exit_z) THEN 0 ELSE current

\* Lines 107-120: one iteration of the loop.  A NaN session writes 0 to pos and
\* continues, leaving `current` as it was.
SignalStep(current, z, entry_z, exit_z) ==
    IF z.nan
    THEN [current |-> current, pos |-> 0]
    ELSE LET c == StepState(current, z, entry_z, exit_z)
         IN  [current |-> c, pos |-> c]

\* Lines 104-120 as a fold: the series pos of one pair, from current = 0.
RECURSIVE SignalScan(_, _, _, _, _)
SignalScan(z, k, current, entry_z, exit_z) ==
    IF k > Len(z) THEN <<>>
    ELSE Let(SignalStep(current, z[k], entry_z, exit_z),
             LAMBDA r : <<r.pos>> \o SignalScan(z, k + 1, r.current, entry_z, exit_z))

PairSignals(z, entry_z, exit_z) == SignalScan(z, 1, 0, entry_z, exit_z)

(***************************************************************************)
(* generate_signals run session by session on one pair                     *)
(***************************************************************************)
MaxLen == 5

SigPricesA == 1..2
SigPricesB == 1..2
SigHedgeRatios == {<<1, 1>>, <<-1, 2>>}
SigLookbacks == {2, 3}
\* <<entry_z, exit_z>>
SigThresholds == {<<<<1, 2>>, <<1, 2>>>>, <<<<1, 1>>, <<1, 2>>>>, <<<<1, 1>>, <<1, 1>>>>}

SeqsOfLen(S, n) == [1..n -> S]

GSInit ==
    /\ \E n \in 0..MaxLen :
       \E pa \in SeqsOfLen(SigPricesA, n), pb \in SeqsOfLen(SigPricesB, n) :
       \E hr \in SigHedgeRatios, lb \in SigLookbacks, th \in SigThresholds :
           gs_in = [pa |-> pa, pb |-> pb, hedge_ratio |-> hr,
                    zscore_lookback |-> lb, entry_z |-> th[1], exit_z |-> th[2],
                    z |-> compute_zscore(compute_spread(pa, pb, hr), lb)]
    /\ gs_i = 0
    /\ gs_current = 0
    /\ gs_pos = <<>>

\* One iteration of `for i in range(len(z))`.
GSStep ==
    /\ gs_i < Len(gs_in.z)
    /\ LET r == SignalStep(gs_current, gs_in.z[gs_i + 1], gs_in.entry_z, gs_in.exit_z)
       IN  /\ gs_current' = r.current
           /\ gs_pos' = Append(gs_pos, r.pos)
    /\ gs_i' = gs_i + 1
    /\ UNCHANGED <<gs_in, bw_vars, bt_vars, sc_vars, ext_vars>>

GSIdle ==
    /\ gs_in = [z |-> <<>>]
    /\ gs_i = 0
    /\ gs_current = 0
    /\ gs_pos = <<>>

(***************************************************************************)
(* Claims about generate_signals (checked under SpecSig)                   *)
(***************************************************************************)
\* The z-score of the session the loop has just processed.
GSLastZ == gs_in.z[gs_i]

\* C1: on every session whose z-score is defined, the held state `current`
\* goes FLAT -> +1 iff z <= -entry_z, FLAT -> -1 iff z >= +entry_z,
\* +1/-1 -> 0 iff |z| <= exit_z, is unchanged in every other case, and the
\* signal written for the session is the state after the transition.
C1_Transitions ==
    [][ (gs_i' = gs_i + 1 /\ ~gs_in.z[gs_i + 1].nan) =>
          LET z == gs_in.z[gs_i + 1]
          IN  /\ gs_current = 0 =>
                    /\ gs_current' = 1 <=> ZLeNeg(z, gs_in.entry_z)
                    /\ gs_current' = -1 <=> ZGe(z, gs_in.entry_z)
                    /\ gs_current' \in {-1, 0, 1}
              /\ gs_current # 0 =>
                    /\ gs_current' = 0 <=> ZAbsLe(z, gs_in.exit_z)
                    /\ gs_current' \in {0, gs_current}
              /\ gs_pos'[gs_i + 1] = gs_current'
      ]_vars

\* C1 witness: a pair entered long on a defined session, left the position on
\* a later defined session inside the exit band, and then entered short.
C1_Witness ==
    \E i \in 1..gs_i, j \in 1..gs_i, k \in 1..gs_i :
        /\ i < j /\ j < k
        /\ gs_pos[i] = 1 /\ ZLeNeg(gs_in.z[i], gs_in.entry_z)
        /\ gs_pos[j] = 0 /\ ~gs_in.z[j].nan /\ ZAbsLe(gs_in.z[j], gs_in.exit_z)
        /\ gs_pos[k] = -1

\* C2 (as claimed): a session with an undefined z-score forces the state to
\* FLAT and the signal to 0, so that the next session with a defined z-score
\* emits a non-zero signal only if its z-score meets an entry threshold.
C2_NaNForcesFlat ==
    /\ (gs_i > 0 /\ GSLastZ.nan) => (gs_current = 0 /\ gs_pos[gs_i] = 0)
    /\ (gs_i > 1 /\ gs_in.z[gs_i - 1].nan /\ ~GSLastZ.nan /\ gs_pos[gs_i] # 0) =>
           (ZLeNeg(GSLastZ, gs_in.entry_z) \/ ZGe(GSLastZ, gs_in.entry_z))

\* C3 (as claimed): once in a position, the signal keeps its value at every
\* later session until the first session at which |z| <= exit_z is observed.
C3_HoldUntilExit ==
    \A i \in 1..gs_i, j \in 1..gs_i :
        ( /\ i < j
          /\ gs_pos[i] # 0
          /\ \A k \in (i + 1)..j :
                 ~(~gs_in.z[k].nan /\ ZAbsLe(gs_in.z[k], gs_in.exit_z)) )
        => gs_pos[j] = gs_pos[i]

\* A z-score given in tenths.
ZTenths(n) == ZVal(Sign(n), n * n, 100)

ExampleZ == <<ZTenths(0), ZTenths(-21), ZTenths(-10), ZTenths(6), ZTenths(-25), ZTenths(3)>>

\* C3 (amended): once in a position, the signal keeps its value at every later
\* session until the first session at which |z| <= exit_z is observed or the
\* z-score is undefined; no re-entry, no flip between +1 and -1 on the way.
\* For z = [0, -2.1, -1.0, 0.6, -2.5, 0.3], entry_z = 2.0, exit_z = 0.5 the
\* signals are [0, 1, 1, 1, 1, 0].
C3_HoldUntilExitOrUndefined ==
    /\ \A i \in 1..gs_i, j \in 1..gs_i :
           ( /\ i < j
             /\ gs_pos[i] # 0
             /\ \A k \in (i + 1)..j :
                    ~gs_in.z[k].nan /\ ~ZAbsLe(gs_in.z[k], gs_in.exit_z) )
           => gs_pos[j] = gs_pos[i]
    /\ PairSignals(ExampleZ, <<2, 1>>, <<1, 2>>) = <<0, 1, 1, 1, 1, 0>>

\* C3 witness: a long position held through a session whose z-score is at or
\* beyond the short-entry threshold.
C3_Witness ==
    \E i \in 1..gs_i :
        /\ i < gs_i
        /\ gs_pos[i] = 1 /\ gs_pos[i + 1] = 1
        /\ ~gs_in.z[i + 1].nan
        /\ ZGe(gs_in.z[i + 1], gs_in.entry_z)

(***************************************************************************)
(* portfolio/construction.py: build_weights                                *)
(*                                                                         *)
(* pairs is a sequence of records [ticker_a, ticker_b, hedge_ratio, ...];  *)
(* signals is a sequence of columns, signals[k] the series of pairs[k];    *)
(* a weight table is a sequence of rows, each a function from the tickers  *)
(* of the pairs to rationals.                                              *)
(***************************************************************************)
\* The column order of a price matrix; every ticker set is kept in this order.
Universe == <<"A", "B", "C">>

\* Lines 32-35: the tickers that appear in any pair.
all_tickers(pairs) ==
    {pairs[k].ticker_a : k \in DOMAIN pairs} \cup {pairs[k].ticker_b : k \in DOMAIN pairs}

RECURSIVE RSumUpTo(_, _)
RSumUpTo(f, k) ==
    IF k = 0 THEN RZero ELSE Let(RSumUpTo(f, k - 1), LAMBDA s : RAdd(s, f[k]))

\* The sum of a sequence of rationals.
RSum(f) == RSumUpTo(f, Len(f))

\* The sum of a row over its tickers (DataFrame.sum(axis=1)).
RowSum(row) ==
    RSum([u \in 1..Len(Universe) |->
             IF Universe[u] \in DOMAIN row THEN row[Universe[u]] ELSE RZero])

RowAbs(row) == [t \in DOMAIN row |-> RAbs(row[t])]

ContributionNoHedge(pair, sig, t, max_position_weight) ==
    LET w == max_position_weight
    IN  RAdd(IF t = pair.ticker_a THEN RMul(RInt(sig), w) ELSE RZero,
             IF t = pair.ticker_b THEN RMul(RInt(-sig), w) ELSE RZero)

\* Lines 39-48: what pair k adds to ticker t on a session with signal sig;
\* the base weight w is min(max_position_weight, max_position_weight).
Contribution(pair, sig, t, max_position_weight) ==
    LET w == max_position_weight
    IN  RAdd(IF t = pair.ticker_a THEN RMul(RInt(sig), w) ELSE RZero,
             IF t = pair.ticker_b
             THEN RMul(RMul(RInt(-sig), pair.hedge_ratio), w) ELSE RZero)

\* Lines 37-48: the accumulated weights of session i.
RawRow(signals, pairs, i, max_position_weight) ==
    [t \in all_tickers(pairs) |->
        RSum([k \in 1..Len(pairs) |->
                 Contribution(pairs[k], signals[k][i], t, max_position_weight)])]

ClipCellNone(x, max_position_weight) == x

\* Line 53: DataFrame.clip(-max_position_weight, max_position_weight), one cell.
ClipCell(x, max_position_weight) ==
    IF RLt(x, RNeg(max_position_weight)) THEN RNeg(max_position_weight)
    ELSE IF RLt(max_position_weight, x) THEN max_position_weight
    ELSE x

ClipRow(row, max_position_weight) ==
    [t \in DOMAIN row |-> ClipCell(row[t], max_position_weight)]

\* Line 56: gross leverage of a row.
Gross(row) == RowSum(RowAbs(row))

ScaleFactorUncapped(gross, max_gross_leverage) ==
    IF gross[1] = 0 THEN RInt(1) ELSE RDiv(max_gross_leverage, gross)

\* Line 57: (max_gross_leverage / gross).clip(upper=1.0); a gross of 0 divides
\* to +inf, which the clip brings to 1.
ScaleFactor(gross, max_gross_leverage) ==
    Let(gross, LAMBDA g :
        IF g[1] = 0 THEN RInt(1)
        ELSE Let(RDiv(max_gross_leverage, g),
                 LAMBDA r : IF RLt(RInt(1), r) THEN RInt(1) ELSE r))

\* Lines 56-58: the row rescaled.
ScaleRow(row, max_gross_leverage) ==
    Let(ScaleFactor(Gross(row), max_gross_leverage),
        LAMBDA scale : [t \in DOMAIN row |-> RMul(row[t], scale)])

\* Lines 29-60, for a signal table of n sessions.
build_weights(signals, n, pairs, max_position_weight, max_gross_leverage) ==
    Tup([i \in 1..n |->
            Let(RawRow(signals, pairs, i, max_position_weight), LAMBDA raw :
            Let(ClipRow(raw, max_position_weight), LAMBDA clipped :
                ScaleRow(clipped, max_gross_leverage)))])

(***************************************************************************)
(* build_weights run step by step on one signal table                      *)
(***************************************************************************)
MaxRows == 1

WHedgeRatios == {<<1, 1>>, <<-1, 2>>, <<2, 1>>}
WPositionWeights == {<<1, 20>>, <<1, 8>>}
WGrossLeverages == {<<4, 1>>, <<1, 10>>, <<2, 25>>}

\* Pair lists in the order itertools.combinations yields them.
WPairLists ==
    LET ordered == <<<<"A", "B">>, <<"A", "C">>, <<"B", "C">>>>
        RECURSIVE Pick(_, _)
        Pick(k, chosen) ==
            IF k > Len(ordered) THEN {chosen}
            ELSE Pick(k + 1, chosen)
                 \cup UNION {Pick(k + 1, Append(chosen,
                                [ticker_a |-> ordered[k][1],
                                 ticker_b |-> ordered[k][2],
                                 hedge_ratio |-> hr])) : hr \in WHedgeRatios}
    IN  Pick(1, <<>>)

BWInit ==
    /\ \E pairs \in WPairLists, n \in 0..MaxRows :
       \E signals \in [1..Len(pairs) -> [1..n -> {-1, 0, 1}]] :
       \E mpw \in WPositionWeights, mgl \in WGrossLeverages :
           bw_in = [signals |-> signals, n |-> n, pairs |-> pairs,
                    max_position_weight |-> mpw, max_gross_leverage |-> mgl]
    /\ bw_pc = "accumulate"
    /\ bw_weights = <<>>
    /\ bw_rows = <<>>

BWIdle ==
    /\ bw_in = [n |-> 0]
    /\ bw_pc = "idle"
    /\ bw_weights = <<>>
    /\ bw_rows = <<>>

\* Lines 29-48: the zero table, then every pair's legs added.
BWAccumulate ==
    /\ bw_pc = "accumulate"
    /\ bw_weights' = [i \in 1..bw_in.n |->
                         RawRow(bw_in.signals, bw_in.pairs, i, bw_in.max_position_weight)]
    /\ bw_pc' = "clip"
    /\ UNCHANGED <<bw_in, bw_rows, gs_vars, bt_vars, sc_vars, ext_vars>>

\* Line 53.
BWClip ==
    /\ bw_pc = "clip"
    /\ bw_weights' = [i \in 1..bw_in.n |->
                         ClipRow(bw_weights[i], bw_in.max_position_weight)]
    /\ bw_pc' = "scale"
    /\ UNCHANGED <<bw_in, bw_rows, gs_vars, bt_vars, sc_vars, ext_vars>>

\* Lines 56-60.
BWScale ==
    /\ bw_pc = "scale"
    /\ bw_weights' = [i \in 1..bw_in.n |->
                         ScaleRow(bw_weights[i], bw_in.max_gross_leverage)]
    /\ bw_pc' = "returned"
    /\ UNCHANGED <<bw_in, bw_rows, gs_vars, bt_vars, sc_vars, ext_vars>>

\* backtest/engine.py lines 95-96: what run_backtest records of a weight row.
gross_leverage(row) == RowSum(RowAbs(row))
net_exposure(row) == RowSum(row)

\* backtest/engine.py lines 92-99, the fields taken from the weight table.
BWRecord ==
    /\ bw_pc = "returned"
    /\ bw_rows' = [i \in 1..bw_in.n |->
                      [gross_leverage |-> gross_leverage(bw_weights[i]),
                       net_exposure |-> net_exposure(bw_weights[i])]]
    /\ bw_pc' = "recorded"
    /\ UNCHANGED <<bw_in, bw_weights, gs_vars, bt_vars, sc_vars, ext_vars>>

(***************************************************************************)
(* Claims about build_weights (checked under SpecW)                        *)
(***************************************************************************)
BWReturned == bw_pc \in {"returned", "recorded"}

\* C4: every cell of the table build_weights returns satisfies
\* |w| <= max_position_weight, every row satisfies sum |w| <=
\* max_gross_leverage, and so does every gross_leverage run_backtest records.
C4_RiskLimits ==
    /\ BWReturned =>
          \A i \in 1..bw_in.n :
              /\ \A t \in DOMAIN bw_weights[i] :
                     RLe(RAbs(bw_weights[i][t]), bw_in.max_position_weight)
              /\ RLe(Gross(bw_weights[i]), bw_in.max_gross_leverage)
    /\ bw_pc = "recorded" =>
          \A i \in 1..bw_in.n :
              RLe(bw_rows[i].gross_leverage, bw_in.max_gross_leverage)

\* C4 witness: a recorded row in which a cell was clipped and the whole row
\* was scaled down to the leverage limit.
C4_Witness ==
    /\ bw_pc = "recorded"
    /\ \E i \in 1..bw_in.n :
          LET raw == RawRow(bw_in.signals, bw_in.pairs, i, bw_in.max_position_weight)
              clipped == ClipRow(raw, bw_in.max_position_weight)
          IN  /\ clipped # raw
              /\ RLt(bw_in.max_gross_leverage, Gross(clipped))
              /\ bw_rows[i].gross_leverage = bw_in.max_gross_leverage

\* The legs of ticker t in row i, pair by pair: s * max_position_weight where
\* t is leg A, -s * h * max_position_weight where it is leg B.
LegSum(i, t) ==
    RSum([k \in 1..Len(bw_in.pairs) |->
             LET s == RInt(bw_in.signals[k][i])
                 h == bw_in.pairs[k].hedge_ratio
             IN  RMul(RSub(IF bw_in.pairs[k].ticker_a = t THEN s ELSE RZero,
                           IF bw_in.pairs[k].ticker_b = t THEN RMul(s, h) ELSE RZero),
                      bw_in.max_position_weight)])

REq(x, y) == x[1] * y[2] = y[1] * x[2]

\* C18: before the risk-limit step the weight of each ticker in each row is
\* the sum, over the pairs that contain it, of s * max_position_weight as leg
\* A and -s * h * max_position_weight as leg B; a row in which every signal is
\* 0 is all zeros.
C18_AccumulatedLegs ==
    bw_pc = "clip" =>
        \A i \in 1..bw_in.n :
            /\ \A t \in DOMAIN bw_weights[i] : REq(bw_weights[i][t], LegSum(i, t))
            /\ (\A k \in 1..Len(bw_in.pairs) : bw_in.signals[k][i] = 0) =>
                   \A t \in DOMAIN bw_weights[i] : bw_weights[i][t] = RZero

\* C18 witness: ticker A is leg A of two active pairs and ticker B is leg B
\* of one and leg A of another; before clipping A holds twice the base weight.
C18_Witness ==
    /\ bw_pc = "clip"
    /\ Len(bw_in.pairs) = 3
    /\ \E i \in 1..bw_in.n :
          /\ \A k \in 1..3 : bw_in.signals[k][i] = 1
          /\ REq(bw_weights[i]["A"], RMul(RInt(2), bw_in.max_position_weight))
          /\ bw_in.pairs[1].hedge_ratio = <<2, 1>>
          /\ bw_weights[i]["B"] = RNeg(bw_in.max_position_weight)

\* C17: the scaling step never scales up.  A row whose gross leverage after
\* clipping is <= max_gross_leverage, a gross of 0 included, is returned as
\* clipped; a row whose gross exceeds the limit is multiplied by
\* max_gross_leverage / gross, so that its gross equals the limit and the sign
\* of its cells and the ratios between them are kept.
C17_NeverScalesUp ==
    [][(bw_pc = "scale" /\ bw_pc' = "returned") =>
          \A i \in 1..bw_in.n :
              LET clipped == bw_weights[i]
                  scaled == bw_weights'[i]
                  g == Gross(clipped)
              IN  IF RLe(g, bw_in.max_gross_leverage)
                  THEN \A t \in DOMAIN clipped : REq(scaled[t], clipped[t])
                  ELSE /\ REq(Gross(scaled), bw_in.max_gross_leverage)
                       /\ \A t \in DOMAIN clipped :
                              /\ REq(scaled[t],
                                     RMul(clipped[t], RDiv(bw_in.max_gross_leverage, g)))
                              /\ Sign(scaled[t][1]) = Sign(clipped[t][1])
                       /\ \A t \in DOMAIN clipped : \A u \in DOMAIN clipped :
                              REq(RMul(scaled[t], clipped[u]),
                                  RMul(scaled[u], clipped[t]))]_vars

\* C17 witness: a table returned with a row that was scaled down to the limit
\* and has a positive and a negative cell.
C17_Witness ==
    /\ bw_pc = "returned"
    /\ \E i \in 1..bw_in.n :
          LET clipped == ClipRow(RawRow(bw_in.signals, bw_in.pairs, i,
                                        bw_in.max_position_weight),
                                 bw_in.max_position_weight)
          IN  /\ RLt(bw_in.max_gross_leverage, Gross(clipped))
              /\ bw_weights[i] # clipped
              /\ REq(Gross(bw_weights[i]), bw_in.max_gross_leverage)
              /\ \E t \in DOMAIN clipped : RLt(bw_weights[i][t], RZero)
              /\ \E t \in DOMAIN clipped : RLt(RZero, bw_weights[i][t])

\* C19 (as claimed): the weights are dollar-neutral: in every row the signed
\* weights sum to zero, and the net_exposure run_backtest records is 0, for
\* every hedge ratio and every combination of active pairs.
C19_DollarNeutral ==
    /\ BWReturned =>
          \A i \in 1..bw_in.n : REq(RowSum(bw_weights[i]), RZero)
    /\ bw_pc = "recorded" =>
          \A i \in 1..bw_in.n : REq(bw_rows[i].net_exposure, RZero)

(***************************************************************************)
(* strategy/pairs.py: find_cointegrated_pairs                              *)
(*                                                                         *)
(* statsmodels' coint is a deterministic function of the two series it is  *)
(* given and is not part of this repository: its p-value is an input,      *)
(* drawn from PValues (in hundredths) and remembered per pair of series,   *)
(* so that the same data always get the same p-value.                      *)
(***************************************************************************)
PValues == {1, 5, 9}

\* itertools.combinations(tickers, 2) for a sequence of tickers.
Combinations(tickers) ==
    LET n == Len(tickers)
        RECURSIVE From(_, _)
        From(i, j) ==
            IF i >= n THEN <<>>
            ELSE IF j > n THEN From(i + 1, i + 2)
            ELSE <<<<tickers[i], tickers[j]>>>> \o From(i, j + 1)
    IN  From(1, 2)

\* n * sum(x*y) - sum(x) * sum(y): n^2 times the covariance of two series.
CoMoment(x, y) ==
    Len(x) * SeqSum([k \in 1..Len(x) |-> x[k] * y[k]]) - SeqSum(x) * SeqSum(y)

\* Lines 41-42: OLS(series_a, add_constant(series_b)).fit().params[1], the
\* slope of a on b.  add_constant leaves a constant series_b as it is, the
\* fit then has a single parameter and params[1] raises IndexError.
OLSDefined(series_a, series_b) == CoMoment(series_b, series_b) # 0

OLSSlope(series_a, series_b) ==
    Rat(CoMoment(series_a, series_b), CoMoment(series_b, series_b))

\* Line 39.
PValueAccepted(pvalue, p_threshold) == pvalue < p_threshold

\* list.sort(key=pvalue): a stable insertion of x into a sorted list.
RECURSIVE InsertByPValue(_, _)
InsertByPValue(sorted, x) ==
    IF sorted = <<>> THEN <<x>>
    ELSE IF x.pvalue < Head(sorted).pvalue THEN <<x>> \o sorted
    ELSE <<Head(sorted)>> \o InsertByPValue(Tail(sorted), x)

RECURSIVE SortByPValue(_)
SortByPValue(l) ==
    IF l = <<>> THEN <<>>
    ELSE InsertByPValue(SortByPValue(SubSeq(l, 1, Len(l) - 1)), l[Len(l)])

\* Lines 32-39: the combinations whose p-value passes, in combination order.
\* prices maps a ticker to its series; pv[k] is coint's answer for the k-th
\* combination.
AcceptedCombos(tickers, pv, p_threshold) ==
    LET combos == Combinations(tickers)
    IN  SelectSeq([k \in 1..Len(combos) |-> [k |-> k, a |-> combos[k][1], b |-> combos[k][2]]],
                  LAMBDA c : PValueAccepted(pv[c.k], p_threshold))

\* Lines 41-42 raise for an accepted pair whose series_b is constant.
FindPairsRaises(prices, tickers, pv, p_threshold) ==
    LET acc == AcceptedCombos(tickers, pv, p_threshold)
    IN  \E j \in 1..Len(acc) : ~OLSDefined(prices[acc[j].a], prices[acc[j].b])

find_cointegrated_pairs(prices, tickers, pv, p_threshold) ==
    LET acc == AcceptedCombos(tickers, pv, p_threshold)
    IN  SortByPValue([j \in 1..Len(acc) |->
            [ticker_a |-> acc[j].a, ticker_b |-> acc[j].b,
             pvalue |-> pv[acc[j].k],
             hedge_ratio |-> OLSSlope(prices[acc[j].a], prices[acc[j].b])]])

\* generate_signals, lines 95-122: one column per pair.
generate_signals(prices, pairs, zscore_lookback, entry_z, exit_z) ==
    Tup([k \in 1..Len(pairs) |->
            Let(compute_spread(prices[pairs[k].ticker_a], prices[pairs[k].ticker_b],
                               pairs[k].hedge_ratio), LAMBDA spread :
            Let(compute_zscore(spread, zscore_lookback), LAMBDA z :
                PairSignals(z, entry_z, exit_z)))])

(***************************************************************************)
(* backtest/engine.py: run_backtest                                        *)
(***************************************************************************)
\* Line 44: the loop condition.
LoopCondStrict(start, training_window, trading_window, n) ==
    start + training_window + trading_window < n

LoopCond(start, training_window, trading_window, n) ==
    start + training_window + trading_window <= n

\* prices.iloc[lo:hi] (0-based, hi excluded) for a matrix ticker -> series.
ILoc(prices, lo, hi) == [t \in DOMAIN prices |-> SubSeq(prices[t], lo + 1, hi)]

TrainPricesLookAhead(prices, start, train_end, trade_end) == ILoc(prices, start, trade_end)

\* Line 48.
TrainPrices(prices, start, train_end, trade_end) == ILoc(prices, start, train_end)

\* Line 49.
TradePrices(prices, train_end, trade_end) == ILoc(prices, train_end, trade_end)

\* Line 84: trade_prices.pct_change() of one ticker at row i >= 2.
PctChange(series, i) == Rat(series[i] - series[i - 1], series[i - 1])

PortRetUnshifted(w, trade_prices, i) ==
    IF i = 1 THEN RZero
    ELSE RowSum([t \in DOMAIN w[i] |-> RMul(w[i][t], PctChange(trade_prices[t], i))])

\* Lines 85-90: (w.shift(1) * r).sum(axis=1) at row i.  Row 1 of both factors
\* is NaN and the sum skips NaN, giving 0.
PortRet(w, trade_prices, i) ==
    IF i = 1 THEN RZero
    ELSE RowSum([t \in DOMAIN w[i - 1] |->
                    RMul(w[i - 1][t], PctChange(trade_prices[t], i))])

ZeroRowOnePair(dt) ==
    [date |-> dt, portfolio_return |-> RZero, gross_leverage |-> RZero,
     net_exposure |-> RZero, n_pairs |-> 1]

\* Lines 57-62.
ZeroRow(dt) ==
    [date |-> dt, portfolio_return |-> RZero, gross_leverage |-> RZero,
     net_exposure |-> RZero, n_pairs |-> 0]

\* Lines 92-99.
PairRow(dt, w, trade_prices, i, pairs) ==
    [date |-> dt, portfolio_return |-> PortRet(w, trade_prices, i),
     gross_leverage |-> gross_leverage(w[i]),
     net_exposure |-> net_exposure(w[i]), n_pairs |-> Len(pairs)]

DedupeKeepFirst(rows) ==
    LET keep == {j \in 1..Len(rows) : \A k \in 1..(j - 1) : rows[k].date # rows[j].date}
        RECURSIVE Pick(_)
        Pick(j) == IF j > Len(rows) THEN <<>>
                   ELSE (IF j \in keep THEN <<rows[j]>> ELSE <<>>) \o Pick(j + 1)
    IN  Pick(1)

\* Line 107: df[~df.index.duplicated(keep="last")].
Dedupe(rows) ==
    LET keep == {j \in 1..Len(rows) :
                    \A k \in (j + 1)..Len(rows) : rows[k].date # rows[j].date}
        RECURSIVE Pick(_)
        Pick(j) == IF j > Len(rows) THEN <<>>
                   ELSE (IF j \in keep THEN <<rows[j]>> ELSE <<>>) \o Pick(j + 1)
    IN  Pick(1)

RECURSIVE InsertByDate(_, _)
InsertByDate(sorted, x) ==
    IF sorted = <<>> THEN <<x>>
    ELSE IF x.date < Head(sorted).date THEN <<x>> \o sorted
    ELSE <<Head(sorted)>> \o InsertByDate(Tail(sorted), x)

\* Line 108: df.sort_index().
RECURSIVE SortByDate(_)
SortByDate(rows) ==
    IF rows = <<>> THEN <<>>
    ELSE InsertByDate(SortByDate(SubSeq(rows, 1, Len(rows) - 1)), rows[Len(rows)])

\* Lines 103-109.
FinalTable(results) ==
    IF results = <<>> THEN <<>> ELSE SortByDate(Dedupe(results))

(***************************************************************************)
(* run_backtest run window by window.  Two runs are kept side by side so   *)
(* that runs on two price matrices can be compared; a run that is not      *)
(* used is "off".                                                          *)
(***************************************************************************)
MaxN == 6

Runs == {1, 2}

BTTickers == <<"A", "B">>
BTPricesA == 1..2
BTTrainingWindows == {1, 2}
BTTradingWindows == {1, 2, 3}
\* coint's answers in a backtest, in hundredths: below the threshold and on it.
BTPValues == {1, 5}

\* The arguments of a run other than the prices and their dates.
BTParams ==
    [training_window : BTTrainingWindows, trading_window : BTTradingWindows,
     coint_pvalue : {5}, zscore_lookback : {2, 3},
     entry_z : {<<1, 2>>}, exit_z : {<<1, 2>>},
     max_position_weight : {<<1, 20>>}, max_gross_leverage : {<<2, 25>>}]

\* The series of ticker B: 1, 2, 1, ... or 2, 1, 2, ... or constant 1.
BTSeriesB(n) ==
    {[i \in 1..n |-> 1 + ((i + k) % 2)] : k \in 0..1} \cup {[i \in 1..n |-> 1]}

\* Price matrices of n sessions.
BTPriceMatrices(n) ==
    {[A |-> a, B |-> b] : a \in SeqsOfLen(BTPricesA, n), b \in BTSeriesB(n)}

StrictDates(n) == [i \in 1..n |-> i]

\* A date index with one date repeated (session j + 1 carries the date of
\* session j) or with two neighbouring sessions out of order.
LooseDates(n) ==
    {[i \in 1..n |-> IF i <= j THEN i ELSE i - 1] : j \in 1..(n - 1)}
    \cup {[i \in 1..n |-> IF i = j THEN j + 1 ELSE IF i = j + 1 THEN j ELSE i] :
             j \in 1..(n - 1)}

BTArgs(prices, dates, n, params) ==
    [prices |-> prices, dates |-> dates, n |-> n,
     training_window |-> params.training_window,
     trading_window |-> params.trading_window,
     coint_pvalue |-> params.coint_pvalue,
     zscore_lookback |-> params.zscore_lookback,
     entry_z |-> params.entry_z, exit_z |-> params.exit_z,
     max_position_weight |-> params.max_position_weight,
     max_gross_leverage |-> params.max_gross_leverage]

BTOff == [n |-> 0]

\* Lines 39-43 for the runs in `on`, whose arguments are args[r].
BTStart(args, on) ==
    /\ bt_in = [r \in Runs |-> IF r \in on THEN args[r] ELSE BTOff]
    /\ bt_start = [r \in Runs |-> 0]
    /\ bt_results = [r \in Runs |-> <<>>]
    /\ bt_pc = [r \in Runs |-> IF r \in on THEN "loop" ELSE "off"]
    /\ bt_df = [r \in Runs |-> <<>>]
    /\ bt_windows = [r \in Runs |-> <<>>]
    /\ bt_wlog = [r \in Runs |-> <<>>]
    /\ coint_memo = {}

BTIdle == BTStart([r \in Runs |-> BTOff], {})

\* One run, on any price matrix with a strictly increasing date index.
BTInit ==
    \E n \in 0..MaxN, params \in BTParams :
    \E prices \in BTPriceMatrices(n) :
        BTStart([r \in Runs |-> BTArgs(prices, StrictDates(n), n, params)], {1})

\* One run, on a price matrix whose date index may repeat a date or be out
\* of order.
BTInitLoose ==
    \E n \in 0..MaxN, params \in BTParams :
    \E prices \in BTPriceMatrices(n), dates \in LooseDates(n) \cup {StrictDates(n)} :
        BTStart([r \in Runs |-> BTArgs(prices, dates, n, params)], {1})

\* Two runs with the same parameters, a training window on which a hedge
\* ratio can be fitted, on two price matrices of n sessions that agree at
\* least up to the first session that can have a row.
MaxN2 == 5

BTInitTwo ==
    \E n \in 0..MaxN2, params \in BTParams :
    \E p1 \in BTPriceMatrices(n), p2 \in BTPriceMatrices(n) :
        /\ params.training_window >= 2
        /\ \A t \in DOMAIN p1 : \A i \in 1..Min(n, params.training_window + 1) :
               p1[t][i] = p2[t][i]
        /\ BTStart([r \in Runs |-> BTArgs(IF r = 1 THEN p1 ELSE p2,
                                          StrictDates(n), n, params)], Runs)

\* Lines 45-46.
BTTrainEnd(r) == bt_start[r] + bt_in[r].training_window
BTTradeEnd(r) == Min(BTTrainEnd(r) + bt_in[r].trading_window, bt_in[r].n)

BTTrain(r) == TrainPrices(bt_in[r].prices, bt_start[r], BTTrainEnd(r), BTTradeEnd(r))
BTTrade(r) == TradePrices(bt_in[r].prices, BTTrainEnd(r), BTTradeEnd(r))

NextStartBySession(r) == bt_start[r] + 1

\* Lines 64 and 101: start += trading_window.
NextStart(r) == bt_start[r] + bt_in[r].trading_window

\* The two series coint is called with, per combination.
CointKeys(train) ==
    Let(Combinations(BTTickers), LAMBDA combos :
        Tup([k \in 1..Len(combos) |-> <<train[combos[k][1]], train[combos[k][2]]>>]))

\* The answers coint may give on `train`: those already given stand.
CointAnswers(train) ==
    Let(CointKeys(train), LAMBDA keys :
        {pv \in [1..Len(keys) -> BTPValues] :
            /\ \A k \in 1..Len(keys) : \A m \in coint_memo :
                   m.key = keys[k] => m.pvalue = pv[k]
            /\ \A k \in 1..Len(keys), l \in 1..Len(keys) :
                   keys[k] = keys[l] => pv[k] = pv[l]})

Remember(train, pv) ==
    coint_memo' = coint_memo \cup
        Let(CointKeys(train), LAMBDA keys :
            {[key |-> keys[k], pvalue |-> pv[k]] : k \in 1..Len(keys)})

\* The runs are made one after the other.
BTTurn(r) == \A q \in Runs : q < r => bt_pc[q] # "loop"

\* Line 44.
BTLooping(r) ==
    /\ bt_pc[r] = "loop"
    /\ BTTurn(r)
    /\ LoopCond(bt_start[r], bt_in[r].training_window, bt_in[r].trading_window, bt_in[r].n)

\* The window's entry in the history.
BTWindowEntry(r, pairs, train) ==
    [start |-> bt_start[r], train_end |-> BTTrainEnd(r), trade_end |-> BTTradeEnd(r),
     train |-> train, pairs |-> pairs]

\* Lines 52, 41-42 of strategy/pairs.py: find_cointegrated_pairs raises.
BTWindowRaise(r) ==
    /\ BTLooping(r)
    /\ \E train \in {BTTrain(r)} :
       \E pv \in CointAnswers(train) :
          /\ FindPairsRaises(train, BTTickers, pv, bt_in[r].coint_pvalue)
          /\ Remember(train, pv)
    /\ bt_pc' = [bt_pc EXCEPT ![r] = "raised"]
    /\ UNCHANGED <<bt_in, bt_start, bt_results, bt_df, bt_windows, bt_wlog, gs_vars, bw_vars, sc_vars, ext_vars>>

\* Lines 45-65: a window in which no pair is found.
BTWindowNoPairs(r) ==
    /\ BTLooping(r)
    /\ \E train \in {BTTrain(r)} :
       \E pv \in CointAnswers(train) :
          /\ ~FindPairsRaises(train, BTTickers, pv, bt_in[r].coint_pvalue)
          /\ find_cointegrated_pairs(train, BTTickers, pv, bt_in[r].coint_pvalue) = <<>>
          /\ Remember(train, pv)
          /\ bt_windows' = [bt_windows EXCEPT ![r] =
                 Append(@, BTWindowEntry(r, <<>>, train))]
    /\ \E te \in {BTTrainEnd(r)}, m \in {BTTradeEnd(r) - BTTrainEnd(r)} :
          /\ bt_results' = [bt_results EXCEPT ![r] =
                 @ \o [i \in 1..m |-> ZeroRow(bt_in[r].dates[te + i])]]
          /\ bt_wlog' = [bt_wlog EXCEPT ![r] =
                 @ \o [i \in 1..m |-> [session |-> te + i, row |-> i, w |-> <<>>]]]
    /\ bt_start' = [bt_start EXCEPT ![r] = NextStart(r)]
    /\ UNCHANGED <<bt_in, bt_pc, bt_df, gs_vars, bw_vars, sc_vars, ext_vars>>

\* Lines 45-52 and 67-101: a window that trades the pairs found.
BTWindowPairs(r) ==
    /\ BTLooping(r)
    /\ \E train \in {BTTrain(r)}, trade \in {BTTrade(r)},
          te \in {BTTrainEnd(r)}, m \in {BTTradeEnd(r) - BTTrainEnd(r)} :
       \E pv \in CointAnswers(train) :
          /\ ~FindPairsRaises(train, BTTickers, pv, bt_in[r].coint_pvalue)
          /\ Remember(train, pv)
          /\ \E pairs \in {find_cointegrated_pairs(train, BTTickers, pv,
                                                   bt_in[r].coint_pvalue)} :
                /\ pairs # <<>>
                /\ \E signals \in {generate_signals(trade, pairs, bt_in[r].zscore_lookback,
                                                    bt_in[r].entry_z, bt_in[r].exit_z)} :
                   \E w \in {build_weights(signals, m, pairs,
                                           bt_in[r].max_position_weight,
                                           bt_in[r].max_gross_leverage)} :
                      /\ bt_results' = [bt_results EXCEPT ![r] =
                             @ \o [i \in 1..m |->
                                      PairRow(bt_in[r].dates[te + i], w, trade, i, pairs)]]
                      /\ bt_wlog' = [bt_wlog EXCEPT ![r] =
                             @ \o [i \in 1..m |->
                                      [session |-> te + i, row |-> i, w |-> w[i]]]]
                /\ bt_windows' = [bt_windows EXCEPT ![r] =
                       Append(@, BTWindowEntry(r, pairs, train))]
    /\ bt_start' = [bt_start EXCEPT ![r] = NextStart(r)]
    /\ UNCHANGED <<bt_in, bt_pc, bt_df, gs_vars, bw_vars, sc_vars, ext_vars>>

\* Lines 44 and 103-109: the loop ends and the table is returned.
BTFinish(r) ==
    /\ bt_pc[r] = "loop"
    /\ BTTurn(r)
    /\ ~LoopCond(bt_start[r], bt_in[r].training_window, bt_in[r].trading_window, bt_in[r].n)
    /\ bt_df' = [bt_df EXCEPT ![r] = FinalTable(bt_results[r])]
    /\ bt_pc' = [bt_pc EXCEPT ![r] = "returned"]
    /\ UNCHANGED <<bt_in, bt_start, bt_results, bt_windows, bt_wlog, coint_memo,
                   gs_vars, bw_vars, sc_vars, ext_vars>>

(***************************************************************************)
(* Claims about run_backtest (checked under SpecBT, SpecDates and SpecTwo) *)
(***************************************************************************)
\* The simple return of ticker t from session s - 1 to session s.
AssetReturn(prices, t, s) == Rat(prices[t][s] - prices[t][s - 1], prices[t][s - 1])

\* What run r logged for session s (the sessions of a run's rows are distinct).
BTLogAt(r, s) == CHOOSE e \in {bt_wlog[r][k] : k \in 1..Len(bt_wlog[r])} : e.session = s

\* Sum over tickers of (weight observed at session s - 1) x (return s - 1 -> s).
YesterdayDot(r, s) ==
    Let(BTLogAt(r, s - 1).w, LAMBDA w :
        RowSum([t \in DOMAIN w |-> RMul(w[t], AssetReturn(bt_in[r].prices, t, s))]))

\* C5 (as claimed): for every output date t that has a preceding output date,
\* portfolio_return at t is the sum over tickers of the weight observed at
\* t - 1 times the asset's simple return from t - 1 to t.
C5_ReturnAlignment ==
    \A r \in Runs :
        bt_pc[r] = "returned" =>
            \A j \in 2..Len(bt_df[r]) :
                bt_df[r][j].portfolio_return = YesterdayDot(r, bt_df[r][j].date)

\* C5 (amended): for every output date t that is not the first session of
\* its window's trading segment, portfolio_return at t is the sum over
\* tickers of the weight observed at t - 1 times the asset's simple return
\* from t - 1 to t; on the first session of a trading segment it is 0.
\* A weight of 0.05 and a return of 0.02 on the next day contribute 0.001.
C5_ReturnAlignmentInSegment ==
    /\ \A r \in Runs :
           bt_pc[r] = "returned" =>
               \A j \in 1..Len(bt_df[r]) :
                   bt_df[r][j].portfolio_return =
                       IF BTLogAt(r, bt_df[r][j].date).row = 1 THEN RZero
                       ELSE YesterdayDot(r, bt_df[r][j].date)
    /\ PortRet(<<[A |-> <<1, 20>>], [A |-> <<-1, 20>>]>>, [A |-> <<50, 51>>], 2)
           = <<1, 1000>>

\* C5 witness: a returned table with a row, not the first of its segment,
\* whose portfolio_return is not 0.
C5_Witness ==
    \E r \in Runs :
        /\ bt_pc[r] = "returned"
        /\ \E j \in 2..Len(bt_df[r]) :
               /\ BTLogAt(r, bt_df[r][j].date).row # 1
               /\ bt_df[r][j].portfolio_return # RZero

\* The two matrices agree on every session up to and including d.
AgreeUpTo(d) ==
    /\ d <= bt_in[1].n /\ d <= bt_in[2].n
    /\ \A t \in DOMAIN bt_in[1].prices : \A i \in 1..d :
           bt_in[1].prices[t][i] = bt_in[2].prices[t][i]

\* C6: if the price matrices of two runs agree on every session up to and
\* including session d, every row for a date <= d that appears in both
\* outputs is the same in both; and every window's pairs are computed from
\* prices of sessions before its trading segment.
C6_NoLookAhead ==
    /\ (bt_pc[1] = "returned" /\ bt_pc[2] = "returned") =>
           \A d \in 0..bt_in[1].n :
               AgreeUpTo(d) =>
                   \A i \in 1..Len(bt_df[1]), j \in 1..Len(bt_df[2]) :
                       (bt_df[1][i].date = bt_df[2][j].date /\ bt_df[1][i].date <= d)
                           => bt_df[1][i] = bt_df[2][j]
    /\ \A r \in Runs : \A k \in 1..Len(bt_windows[r]) :
           bt_windows[r][k].train =
               ILoc(bt_in[r].prices, bt_windows[r][k].start, bt_windows[r][k].train_end)

\* C6 witness: two returned runs whose matrices agree up to a session d and
\* differ on the next, inside a trading segment that has a row with a
\* position at a date <= d.
C6_Witness ==
    /\ bt_pc[1] = "returned" /\ bt_pc[2] = "returned"
    /\ \E d \in 1..(bt_in[1].n - 1) :
           /\ AgreeUpTo(d) /\ ~AgreeUpTo(d + 1)
           /\ \E i \in 1..(Len(bt_df[1]) - 1) :
                  /\ bt_df[1][i].date = d
                  /\ bt_df[1][i].n_pairs > 0
                  /\ bt_df[1][i].gross_leverage # RZero
                  /\ bt_wlog[1][i + 1].row # 1
                  /\ bt_df[2][i] = bt_df[1][i]

\* C7: the table returned has exactly one row per date of the rows written,
\* in increasing date order, and the row of a date is the last one written
\* for it.
C7_OneRowPerDate ==
    \A r \in Runs :
        bt_pc[r] = "returned" =>
            /\ \A i \in 1..Len(bt_df[r]), j \in 1..Len(bt_df[r]) :
                   i < j => bt_df[r][i].date < bt_df[r][j].date
            /\ {bt_df[r][j].date : j \in 1..Len(bt_df[r])}
                   = {bt_results[r][k].date : k \in 1..Len(bt_results[r])}
            /\ \A j \in 1..Len(bt_df[r]) : \E k \in 1..Len(bt_results[r]) :
                   /\ bt_df[r][j] = bt_results[r][k]
                   /\ \A l \in (k + 1)..Len(bt_results[r]) :
                          bt_results[r][l].date # bt_results[r][k].date

\* C7 witness: two windows wrote different rows for one date, and the table
\* returned holds the later window's row.
C7_Witness ==
    \E r \in Runs :
        /\ bt_pc[r] = "returned"
        /\ \E k \in 1..(Len(bt_results[r]) - 1) :
               /\ bt_wlog[r][k + 1].row = 1
               /\ bt_results[r][k].date = bt_results[r][k + 1].date
               /\ bt_results[r][k] # bt_results[r][k + 1]
               /\ \E j \in 1..Len(bt_df[r]) : bt_df[r][j] = bt_results[r][k + 1]

\* floor((n - training_window) / trading_window), 0 if not one window fits.
WindowCount(n, training_window, trading_window) ==
    IF n < training_window + trading_window THEN 0
    ELSE (n - training_window) \div trading_window

C9_NoPairsZeroRows ==
    [][ \A r \in Runs :
          Len(bt_windows'[r]) = Len(bt_windows[r]) + 1 =>
              LET win == bt_windows'[r][Len(bt_windows'[r])]
                  m == bt_in[r].trading_window
              IN  /\ bt_start'[r] = bt_start[r] + m
                  /\ bt_pc'[r] = "loop"
                  /\ Len(bt_results'[r]) = Len(bt_results[r]) + m
                  /\ win.pairs = <<>> =>
                         \A i \in 1..m :
                             bt_results'[r][Len(bt_results[r]) + i] =
                                 [date |-> bt_in[r].dates[win.train_end + i],
                                  portfolio_return |-> RZero, gross_leverage |-> RZero,
                                  net_exposure |-> RZero, n_pairs |-> 0]
      ]_vars

\* C9 witness: a returned run in which a window without pairs was followed
\* by a window that traded a pair.
C9_Witness ==
    \E r \in Runs :
        /\ bt_pc[r] = "returned"
        /\ \E k \in 1..(Len(bt_windows[r]) - 1) :
               /\ bt_windows[r][k].pairs = <<>>
               /\ bt_windows[r][k + 1].pairs # <<>>

(***************************************************************************)
(* strategy/scanner.py: _compute_pair_metrics, scan_pairs                  *)
(*                                                                         *)
(* What statsmodels and numpy measure on a pair of series (coint, OLS,     *)
(* adfuller, std, the AR(1) slope) is an input: a record of measurements   *)
(* per pair, p-values in hundredths.                                       *)
(***************************************************************************)
\* Line 35: the p-value above which a pair is dropped, 0.05.
ScanPValue == 5

\* Line 49: the ADF p-value above which a pair is dropped, 0.05.
ScanADFPValue == 5

\* Line 130: the fewest aligned observations a pair is tested on.
ScanMinLen == 100

\* Line 61: the fewest lagged observations the AR(1) fit is made on.
ScanMinLag == 10

\* Line 66: -ln(2) / beta_ar, with ln(2) taken as 0.7.
HalfLife(beta_ar) == RDiv(<<-7, 10>>, beta_ar)

\* Line 35: the pair goes on unless pvalue > 0.05.
PValueKept(pvalue) == ~(pvalue > ScanPValue)

\* Line 41: the pair goes on unless abs(hedge_ratio) < 0.1 or > 10.
HedgeRatioKept(hedge_ratio) ==
    ~(RLt(RAbs(hedge_ratio), <<1, 10>>) \/ RLt(<<10, 1>>, RAbs(hedge_ratio)))

\* Lines 28-81 on the measurements m of one pair: None, the empty sequence,
\* or the metrics, a sequence of one record.
compute_pair_metrics(m) ==
    IF ~PValueKept(m.coint_pvalue) THEN <<>>
    ELSE IF ~HedgeRatioKept(m.hedge_ratio) THEN <<>>
    ELSE IF m.adf_pvalue > ScanADFPValue THEN <<>>
    ELSE IF RLt(m.spread_std, <<1, 1000000>>) THEN <<>>
    ELSE IF m.n_obs - 1 < ScanMinLag THEN <<>>
    ELSE IF ~RLt(m.beta_ar, RZero) THEN <<>>
    ELSE <<[coint_pvalue |-> m.coint_pvalue, adf_pvalue |-> m.adf_pvalue,
            hedge_ratio |-> m.hedge_ratio, half_life |-> HalfLife(m.beta_ar),
            spread_std |-> m.spread_std, r_squared |-> m.r_squared]>>

\* Lines 140-145.
Score(metrics) ==
    Let(metrics, LAMBDA x :
        RAdd(RAdd(RMul(<<100 - x.coint_pvalue, 100>>, <<3, 10>>),
                  RMul(<<100 - x.adf_pvalue, 100>>, <<3, 10>>)),
             RAdd(RMul(RDiv(RInt(1), IF RLt(x.half_life, RInt(1)) THEN RInt(1)
                                     ELSE x.half_life),
                       <<2, 10>>),
                  RMul(x.r_squared, <<2, 10>>))))

\* Line 101.
SectorOf(sectors, t) == IF t \in DOMAIN sectors THEN sectors[t] ELSE "Unknown"

\* Lines 99-102: the sectors in the order their first ticker comes, each
\* with its tickers in column order.
RECURSIVE SectorGroups(_, _, _)
SectorGroups(tickers, sectors, k) ==
    IF k = 0 THEN <<>>
    ELSE Let(SectorGroups(tickers, sectors, k - 1), LAMBDA groups :
         Let(SectorOf(sectors, tickers[k]), LAMBDA sec :
             IF \E g \in 1..Len(groups) : groups[g].sector = sec
             THEN [g \in 1..Len(groups) |->
                      IF groups[g].sector = sec
                      THEN [groups[g] EXCEPT !.members = Append(@, tickers[k])]
                      ELSE groups[g]] \o <<>>
             ELSE Append(groups, [sector |-> sec, members |-> <<tickers[k]>>])))

\* Lines 112-120: the pairs in the order the two loops reach them.
RECURSIVE ScanOrder(_, _)
ScanOrder(groups, g) ==
    IF g > Len(groups) THEN <<>>
    ELSE Let(IF Len(groups[g].members) < 2 THEN <<>>
             ELSE Combinations(groups[g].members), LAMBDA combos :
             Tup([c \in 1..Len(combos) |->
                     [ticker_a |-> combos[c][1], ticker_b |-> combos[c][2],
                      sector |-> groups[g].sector]]))
         \o ScanOrder(groups, g + 1)

\* Lines 125-153: what one pair adds to `candidates`.
Candidate(pair, m) ==
    IF m.n_obs < ScanMinLen THEN <<>>
    ELSE Let(compute_pair_metrics(m), LAMBDA metrics :
             IF Len(metrics) = 0 THEN <<>>
             ELSE <<[ticker_a |-> pair.ticker_a, ticker_b |-> pair.ticker_b,
                     sector |-> pair.sector, score |-> Score(metrics[1]),
                     coint_pvalue |-> metrics[1].coint_pvalue,
                     adf_pvalue |-> metrics[1].adf_pvalue,
                     hedge_ratio |-> metrics[1].hedge_ratio,
                     half_life |-> metrics[1].half_life,
                     spread_std |-> metrics[1].spread_std,
                     r_squared |-> metrics[1].r_squared]>>)

\* list.sort(key=score, reverse=True): stable, equal scores keep their order.
RECURSIVE InsertByScore(_, _)
InsertByScore(sorted, x) ==
    IF sorted = <<>> THEN <<x>>
    ELSE IF RLt(Head(sorted).score, x.score) THEN <<x>> \o sorted
    ELSE <<Head(sorted)>> \o InsertByScore(Tail(sorted), x)

\* Line 159.
RECURSIVE SortByScore(_)
SortByScore(l) ==
    IF l = <<>> THEN <<>>
    ELSE InsertByScore(SortByScore(SubSeq(l, 1, Len(l) - 1)), l[Len(l)])

\* sector_count.get(sec, 0)
CountOf(count, sec) == IF sec \in DOMAIN count THEN count[sec] ELSE 0

(***************************************************************************)
(* The scanner, in either mode: find_cointegrated_pairs as one call,       *)
(* scan_pairs pair by pair and candidate by candidate                      *)
(***************************************************************************)
ScanTickers == <<"A", "B", "C", "D">>

\* tickers -> sector; a ticker not mapped is "Unknown".
ScanSectorMaps ==
    {[A |-> "Tech", B |-> "Tech", C |-> "Tech"],
     [A |-> "Tech", B |-> "Fin", C |-> "Tech", D |-> "Fin"]}

ScanMaxPairs == {0, 1, 10}
ScanMaxPerSector == {0, 1, 2}

BaseMeasurement ==
    [coint_pvalue |-> 1, hedge_ratio |-> <<1, 1>>, adf_pvalue |-> 1,
     spread_std |-> <<1, 1>>, n_obs |-> 100, beta_ar |-> <<-1, 2>>,
     r_squared |-> <<9, 10>>]

PairMeasurements ==
    {BaseMeasurement,
     [BaseMeasurement EXCEPT !.coint_pvalue = 5],
     [BaseMeasurement EXCEPT !.coint_pvalue = 9],
     [BaseMeasurement EXCEPT !.hedge_ratio = <<-1, 1>>],
     [BaseMeasurement EXCEPT !.hedge_ratio = <<1, 20>>],
     [BaseMeasurement EXCEPT !.hedge_ratio = <<11, 1>>],
     [BaseMeasurement EXCEPT !.adf_pvalue = 9],
     [BaseMeasurement EXCEPT !.spread_std = <<1, 10000000>>],
     [BaseMeasurement EXCEPT !.n_obs = 99],
     [BaseMeasurement EXCEPT !.beta_ar = <<0, 1>>],
     [BaseMeasurement EXCEPT !.beta_ar = <<-1, 10>>, !.r_squared = <<1, 2>>]}

FindPThresholds == {5, 9}
FindSessions == {2, 3}

ScanStart(args, pc) ==
    /\ sc_in = args
    /\ sc_pc = pc
    /\ sc_k = 0
    /\ sc_candidates = <<>>
    /\ sc_selected = <<>>
    /\ sc_count = <<>>

ScanIdle == ScanStart([mode |-> "off"], "idle")

ScanInit ==
    \/ \E sectors \in ScanSectorMaps, max_pairs \in ScanMaxPairs,
          max_per_sector \in ScanMaxPerSector :
       \E order \in {ScanOrder(SectorGroups(ScanTickers, sectors, Len(ScanTickers)), 1)} :
       \E measured \in [1..Len(order) -> PairMeasurements] :
           ScanStart([mode |-> "scan_pairs", sectors |-> sectors, order |-> order,
                      measured |-> measured, max_pairs |-> max_pairs,
                      max_per_sector |-> max_per_sector], "test")
    \/ \E n \in FindSessions, p_threshold \in FindPThresholds :
       \E prices \in BTPriceMatrices(n), pv \in [1..1 -> PValues] :
           ScanStart([mode |-> "find_cointegrated_pairs", prices |-> prices,
                      pv |-> pv, p_threshold |-> p_threshold], "find")

\* strategy/pairs.py lines 29-51, or the IndexError of line 42.
FindPairsCall ==
    /\ sc_pc = "find"
    /\ IF FindPairsRaises(sc_in.prices, BTTickers, sc_in.pv, sc_in.p_threshold)
       THEN sc_pc' = "raised" /\ UNCHANGED sc_selected
       ELSE /\ sc_pc' = "returned"
            /\ sc_selected' = find_cointegrated_pairs(sc_in.prices, BTTickers,
                                                      sc_in.pv, sc_in.p_threshold)
    /\ UNCHANGED <<sc_in, sc_k, sc_candidates, sc_count, gs_vars, bw_vars, bt_vars, ext_vars>>

\* Lines 120-153: one pair of the two loops.
ScanPair ==
    /\ sc_pc = "test"
    /\ sc_k < Len(sc_in.order)
    /\ sc_k' = sc_k + 1
    /\ sc_candidates' = sc_candidates
                            \o Candidate(sc_in.order[sc_k + 1], sc_in.measured[sc_k + 1])
    /\ UNCHANGED <<sc_in, sc_pc, sc_selected, sc_count, gs_vars, bw_vars, bt_vars, ext_vars>>

\* Lines 159-163.
ScanSort ==
    /\ sc_pc = "test"
    /\ sc_k = Len(sc_in.order)
    /\ sc_candidates' = SortByScore(sc_candidates)
    /\ sc_k' = 0
    /\ sc_pc' = "select"
    /\ UNCHANGED <<sc_in, sc_selected, sc_count, gs_vars, bw_vars, bt_vars, ext_vars>>

\* Lines 164-171: one candidate of the selection loop.
ScanSelect ==
    /\ sc_pc = "select"
    /\ sc_k < Len(sc_candidates)
    /\ sc_k' = sc_k + 1
    /\ \E c \in {sc_candidates[sc_k + 1]} :
          IF CountOf(sc_count, c.sector) >= sc_in.max_per_sector
          THEN UNCHANGED <<sc_selected, sc_count, sc_pc>>
          ELSE /\ sc_selected' = Append(sc_selected, c)
               /\ sc_count' = [sec \in DOMAIN sc_count \cup {c.sector} |->
                                  IF sec = c.sector THEN CountOf(sc_count, sec) + 1
                                  ELSE sc_count[sec]]
               /\ sc_pc' = IF Len(sc_selected) + 1 >= sc_in.max_pairs
                           THEN "returned" ELSE "select"
    /\ UNCHANGED <<sc_in, sc_candidates, gs_vars, bw_vars, bt_vars, ext_vars>>

\* Line 173, the loop having run out of candidates.
ScanReturn ==
    /\ sc_pc = "select"
    /\ sc_k = Len(sc_candidates)
    /\ sc_pc' = "returned"
    /\ UNCHANGED <<sc_in, sc_k, sc_candidates, sc_selected, sc_count,
                   gs_vars, bw_vars, bt_vars, ext_vars>>

(***************************************************************************)
(* Claims about the scanner (checked under SpecScan)                       *)
(***************************************************************************)
\* C10 (as claimed): no pair a scanner returns has a cointegration p-value
\* greater than or equal to the threshold in force, p_threshold in
\* find_cointegrated_pairs and 0.05 in scan_pairs; a p-value equal to the
\* threshold is rejected in both modes.
C10_BelowThreshold ==
    sc_pc = "returned" =>
        \A k \in 1..Len(sc_selected) :
            IF sc_in.mode = "scan_pairs"
            THEN sc_selected[k].coint_pvalue < ScanPValue
            ELSE sc_selected[k].pvalue < sc_in.p_threshold

(***************************************************************************)
(* live_feed/trader.py: PairPosition, compute_shares, run_trader           *)
(*                                                                         *)
(* A z-score is the record compute_zscore of strategy/pairs.py produces    *)
(* (NaN, or a sign and a square); a timestamp is the number of the tick    *)
(* that took it, 0 standing for None; a price is a rational.               *)
(***************************************************************************)
\* Lines 36-37.
ZSCORE_ENTRY == <<2, 1>>
ZSCORE_EXIT == <<1, 2>>

\* Line 40.
MAX_EXPOSURE_PER_PAIR == 2500

\* What update returns when no signal fires, and the entry_z of a flat pair.
None == [action |-> "None"]

\* Lines 46-53.
PairPosition(ticker_a, ticker_b, hedge_ratio, sector) ==
    [ticker_a |-> ticker_a, ticker_b |-> ticker_b, hedge_ratio |-> hedge_ratio,
     sector |-> sector, signal |-> 0, entry_z |-> None, entry_time |-> 0]

\* The comparisons of lines 65, 74 and 85; every comparison with NaN is false.
EntersLong(z_score) == ~z_score.nan /\ ZLeNeg(z_score, ZSCORE_ENTRY)
EntersShort(z_score) == ~z_score.nan /\ ZGe(z_score, ZSCORE_ENTRY)
Exits(z_score) == ~z_score.nan /\ ZAbsLe(z_score, ZSCORE_EXIT)

UpdateSignalEager(signal, z_score) ==
    IF EntersLong(z_score) THEN 1
    ELSE IF EntersShort(z_score) THEN -1
    ELSE IF Exits(z_score) THEN 0
    ELSE signal

\* Lines 63-95: self.signal after the call.
UpdateSignal(signal, z_score) ==
    IF signal = 0
    THEN IF EntersLong(z_score) THEN 1
         ELSE IF EntersShort(z_score) THEN -1
         ELSE signal
    ELSE IF Exits(z_score) THEN 0 ELSE signal

\* Lines 98-104: the context added to an action.
WithContext(action, pos, z_score, timestamp) ==
    [f \in DOMAIN action \cup {"pair", "hedge_ratio", "z_score", "timestamp", "sector"} |->
        CASE f = "pair" -> <<pos.ticker_a, pos.ticker_b>>
          [] f = "hedge_ratio" -> pos.hedge_ratio
          [] f = "z_score" -> z_score
          [] f = "timestamp" -> timestamp
          [] f = "sector" -> pos.sector
          [] OTHER -> action[f]]

UpdateActionSwapped(pos, z_score, timestamp) ==
    IF pos.signal = 0
    THEN IF EntersLong(z_score)
         THEN WithContext([action |-> "ENTER_LONG_SPREAD",
                           long |-> pos.ticker_b, short |-> pos.ticker_a],
                          pos, z_score, timestamp)
         ELSE IF EntersShort(z_score)
         THEN WithContext([action |-> "ENTER_SHORT_SPREAD",
                           long |-> pos.ticker_a, short |-> pos.ticker_b],
                          pos, z_score, timestamp)
         ELSE None
    ELSE IF Exits(z_score)
         THEN WithContext([action |-> "EXIT",
                           prev_signal |-> IF pos.signal = 1 THEN "LONG_SPREAD"
                                           ELSE "SHORT_SPREAD",
                           entry_z |-> pos.entry_z, exit_z |-> z_score],
                          pos, z_score, timestamp)
         ELSE None

\* Lines 61-106: the value update returns.
UpdateAction(pos, z_score, timestamp) ==
    IF pos.signal = 0
    THEN IF EntersLong(z_score)
         THEN WithContext([action |-> "ENTER_LONG_SPREAD",
                           long |-> pos.ticker_a, short |-> pos.ticker_b],
                          pos, z_score, timestamp)
         ELSE IF EntersShort(z_score)
         THEN WithContext([action |-> "ENTER_SHORT_SPREAD",
                           long |-> pos.ticker_b, short |-> pos.ticker_a],
                          pos, z_score, timestamp)
         ELSE None
    ELSE IF Exits(z_score)
         THEN WithContext([action |-> "EXIT",
                           prev_signal |-> IF pos.signal = 1 THEN "LONG_SPREAD"
                                           ELSE "SHORT_SPREAD",
                           entry_z |-> pos.entry_z, exit_z |-> z_score],
                          pos, z_score, timestamp)
         ELSE None

\* Lines 55-106: PairPosition.update, the object after the call and the
\* value returned.
update(pos, z_score, timestamp) ==
    Let(UpdateSignal(pos.signal, z_score), LAMBDA signal :
        [pos |-> IF signal = pos.signal THEN pos
                 ELSE IF signal = 0
                 THEN [pos EXCEPT !.signal = 0, !.entry_z = None, !.entry_time = 0]
                 ELSE [pos EXCEPT !.signal = signal, !.entry_z = z_score,
                                  !.entry_time = timestamp],
         action |-> UpdateAction(pos, z_score, timestamp)])

\* int(x) of a quotient a / b, b > 0: truncation toward zero.
TruncDiv(a, b) == IF a >= 0 THEN a \div b ELSE -((-a) \div b)

compute_shares_up(price, dollar_amount) ==
    IF price[1] <= 0 THEN 0
    ELSE TruncDiv(dollar_amount * price[2], price[1]) + 1

\* Lines 157-161.
compute_shares(price, dollar_amount) ==
    IF price[1] <= 0 THEN 0
    ELSE TruncDiv(dollar_amount * price[2], price[1])

\* Lines 339-346: the share counts and prices run_trader adds to an action.
WithShares(action, price_a, price_b) ==
    [f \in DOMAIN action \cup {"shares_a", "shares_b", "price_a", "price_b"} |->
        CASE f = "shares_a" -> compute_shares(price_a, MAX_EXPOSURE_PER_PAIR)
          [] f = "shares_b" -> compute_shares(price_b, MAX_EXPOSURE_PER_PAIR)
          [] f = "price_a" -> price_a
          [] f = "price_b" -> price_b
          [] OTHER -> action[f]]

(***************************************************************************)
(* run_trader, one tick of the poll loop per action                        *)
(***************************************************************************)
MaxTicks == 3

\* The collaborators a tick calls that can raise: log (the output-log
\* write), log_signal (the signals.csv append), the positions.csv write and
\* the subprocess calls of git_push.
Collaborators == {"log", "log_signal", "positions", "push"}

\* Z-scores in tenths, and NaN.
LiveZ == {ZTenths(n) : n \in {-20, -5, 0, 6, 20}} \cup {NaN}

\* What the trailing window of a spread gives: whether its standard deviation
\* is below 1e-8, and (last - mean) / std, NaN for a window of one bar.
LiveWindows ==
    {[std_below_floor |-> FALSE, ratio |-> z] : z \in LiveZ}
        \cup {[std_below_floor |-> TRUE, ratio |-> NaN]}

trader_compute_zscore_unfloored(recent) == recent.ratio

\* Lines 145-154: the live compute_zscore on the window `recent`.
trader_compute_zscore(recent) ==
    IF recent.std_below_floor THEN ZTenths(0) ELSE recent.ratio

\* Latest prices of ticker_a and ticker_b.
LiveQuotes == {<<<<0, 1>>, <<7, 2>>>>, <<<<7, 2>>, <<2500, 1>>>>, <<<<2501, 1>>, <<3, 1>>>>}

\* What active_pairs.csv or the fallback list gives run_trader.
LivePairConfigs ==
    {<<[ticker_a |-> "KO", ticker_b |-> "PEP", hedge_ratio |-> <<1, 1>>,
        sector |-> "Consumer Staples"]>>,
     <<[ticker_a |-> "XOM", ticker_b |-> "CVX", hedge_ratio |-> <<3, 2>>,
        sector |-> "Energy"]>>}

\* What the latest tick fetched: whether the fetch raised, returned an empty
\* table or returned prices and, per pair, whether both its tickers were
\* among the columns and whether the deviation of its spread was below the
\* floor.
NoTick == [fetched |-> "none", present |-> <<>>, floored |-> <<>>]

LiveStart(pc, positions) ==
    /\ rt_pc = pc
    /\ rt_tick = 0
    /\ rt_positions = positions
    /\ rt_hist = [k \in DOMAIN positions |-> <<>>]
    /\ rt_files = [signals |-> 0, positions |-> 0]
    /\ rt_raised = "None"
    /\ rt_last = NoTick

LiveIdle == LiveStart("idle", <<>>)

\* Lines 294-300: the trackers built from the pair configurations.
Trackers(configs) ==
    [k \in DOMAIN configs |->
        PairPosition(configs[k].ticker_a, configs[k].ticker_b,
                     configs[k].hedge_ratio, configs[k].sector)]

\* Lines 291-305: the trackers built from the pair configurations.
LiveInit ==
    \E configs \in LivePairConfigs : LiveStart("loop", Trackers(configs))

\* Line 39.
MAX_PAIRS == 10

\* Line 38.
TOTAL_CAPITAL == 50000

\* Tables of n pairs on 2n tickers, n up to MAX_PAIRS.
BookSizes == {5, 6, MAX_PAIRS}

BookConfigs(n) ==
    [k \in 1..n |-> [ticker_a |-> <<"A", k>>, ticker_b |-> <<"B", k>>,
                     hedge_ratio |-> <<1, 1>>, sector |-> "Energy"]]

BookInit ==
    \E n \in BookSizes : LiveStart("loop", Trackers(BookConfigs(n)))

\* Lines 327-363: the loop over the positions from position k on.  obs[k] is
\* what the tick observed of pair k: whether both tickers are among the
\* fetched columns, the z-score of its spread and the latest prices.  The
\* loop stops at the first log_signal that raises.
PairObservedAlways(obs, k) == TRUE

\* Lines 328-329: both tickers of pair k are columns of the fetched prices.
PairObserved(obs, k) == obs[k].present

RECURSIVE UpdateAll(_, _, _, _, _, _, _)
UpdateAll(k, positions, hist, nsignals, obs, now, fails) ==
    IF k > Len(positions)
    THEN [positions |-> positions, hist |-> hist, signals |-> nsignals,
          raised |-> "None"]
    ELSE IF ~PairObserved(obs, k)
    THEN UpdateAll(k + 1, positions, hist, nsignals, obs, now, fails)
    ELSE Let(trader_compute_zscore(obs[k].recent), LAMBDA z :
         Let(update(positions[k], z, now), LAMBDA r :
         Let(IF r.action = None THEN None
             ELSE WithShares(r.action, obs[k].quote[1], obs[k].quote[2]),
             LAMBDA action :
         Let([positions EXCEPT ![k] = r.pos], LAMBDA positions1 :
         Let([hist EXCEPT ![k] = Append(@, [z |-> z, signal |-> r.pos.signal,
                                            action |-> action])],
             LAMBDA hist1 :
             IF action = None
             THEN UpdateAll(k + 1, positions1, hist1, nsignals, obs, now, fails)
             ELSE IF "log_signal" \in fails
             THEN [positions |-> positions1, hist |-> hist1, signals |-> nsignals,
                   raised |-> "log_signal"]
             ELSE UpdateAll(k + 1, positions1, hist1, nsignals + 1, obs, now, fails))))))

\* What a tick can observe of one pair.
PairObservations == [present : BOOLEAN, recent : LiveWindows, quote : LiveQuotes]

\* The same for the pairs of a table of several pairs: an entry or an exit.
TableObservations ==
    [present : BOOLEAN,
     recent : {[std_below_floor |-> FALSE, ratio |-> ZTenths(n)] : n \in {-20, 0, 20}},
     quote : {<<<<7, 2>>, <<2500, 1>>>>}]

\* The ticks drawn for the table: any observation of a single pair, any
\* observations of two pairs whose tickers are all fetched, one observation
\* common to the pairs of a larger table.
Observations ==
    IF Len(rt_positions) = 1 THEN [DOMAIN rt_positions -> PairObservations]
    ELSE IF Len(rt_positions) = 2
    THEN [DOMAIN rt_positions -> {o \in TableObservations : o.present}]
    ELSE {[k \in DOMAIN rt_positions |-> o] : o \in TableObservations}

\* What a tick that fetched `obs` leaves in rt_last.
Fetched(obs) ==
    [fetched |-> "ok",
     present |-> [k \in DOMAIN obs |-> obs[k].present],
     floored |-> [k \in DOMAIN obs |-> obs[k].present /\ obs[k].recent.std_below_floor]]

\* Lines 307-322: a tick whose fetch raises or returns an empty table; the
\* tick logs the fact, sleeps and continues.
RTSkip ==
    /\ rt_pc = "loop"
    /\ rt_tick < MaxTicks
    /\ rt_tick' = rt_tick + 1
    /\ \E fetched \in {"raised", "empty"}, fails \in SUBSET Collaborators :
          /\ rt_last' = [NoTick EXCEPT !.fetched = fetched]
          /\ IF "log" \in fails
             THEN rt_pc' = "terminated" /\ rt_raised' = "log"
             ELSE UNCHANGED <<rt_pc, rt_raised>>
    /\ UNCHANGED <<rt_positions, rt_hist, rt_files,
                   gs_vars, bw_vars, bt_vars, sc_vars, mn_vars, ps_vars, br_vars>>

\* Lines 307-395: a tick whose fetch returns prices.
RTTick ==
    /\ rt_pc = "loop"
    /\ rt_tick < MaxTicks
    /\ rt_tick' = rt_tick + 1
    /\ \E fails \in SUBSET Collaborators, obs \in Observations :
          IF "log" \in fails
          THEN /\ rt_pc' = "terminated" /\ rt_raised' = "log"
               /\ UNCHANGED <<rt_positions, rt_hist, rt_files, rt_last>>
          ELSE \E r \in {UpdateAll(1, rt_positions, rt_hist, rt_files.signals,
                                   obs, rt_tick + 1, fails)} :
               /\ rt_positions' = r.positions
               /\ rt_hist' = r.hist
               /\ rt_last' = Fetched(obs)
               /\ IF r.raised # "None"
                  THEN /\ rt_pc' = "terminated" /\ rt_raised' = r.raised
                       /\ rt_files' = [rt_files EXCEPT !.signals = r.signals]
                  ELSE IF "positions" \in fails
                  THEN /\ rt_pc' = "terminated" /\ rt_raised' = "positions"
                       /\ rt_files' = [rt_files EXCEPT !.signals = r.signals]
                  ELSE /\ UNCHANGED <<rt_pc, rt_raised>>
                       /\ rt_files' = [signals |-> r.signals, positions |-> rt_tick + 1]
    /\ UNCHANGED <<gs_vars, bw_vars, bt_vars, sc_vars, mn_vars, ps_vars, br_vars>>

(***************************************************************************)
(* Claims about the live tracker (checked under SpecLive)                  *)
(***************************************************************************)
HistZ(k) == [i \in 1..Len(rt_hist[k]) |-> rt_hist[k][i].z]
HistSignals(k) == [i \in 1..Len(rt_hist[k]) |-> rt_hist[k][i].signal]
HistActions(k) ==
    SelectSeq([i \in 1..Len(rt_hist[k]) |-> rt_hist[k][i].action],
              LAMBDA a : a # None)

\* C11: for every sequence of defined z-scores fed one per tick to a fresh
\* PairPosition, its signal after the i-th update equals the i-th signal of
\* generate_signals' scan over the same z-scores with entry_z = 2.0 and
\* exit_z = 0.5.
C11_SameMachine ==
    \A k \in DOMAIN rt_hist :
        (\A i \in 1..Len(rt_hist[k]) : ~rt_hist[k][i].z.nan) =>
            Tup(HistSignals(k)) = PairSignals(HistZ(k), ZSCORE_ENTRY, ZSCORE_EXIT)

\* C11 witness: a pair fed three defined z-scores that entered, left and
\* entered again.
C11_Witness ==
    \E k \in DOMAIN rt_hist :
        /\ Len(rt_hist[k]) = 3
        /\ \A i \in 1..3 : ~rt_hist[k][i].z.nan
        /\ Tup(HistSignals(k)) = <<1, 0, -1>>

IsEnter(a) == a.action \in {"ENTER_LONG_SPREAD", "ENTER_SHORT_SPREAD"}

\* What C12 says of one call of update on pair k.
ActionMatchesTransition(prev, new, a, pos) ==
    /\ (a # None) <=> (prev # new)
    /\ (a.action = "ENTER_LONG_SPREAD") <=> (prev = 0 /\ new = 1)
    /\ (a.action = "ENTER_SHORT_SPREAD") <=> (prev = 0 /\ new = -1)
    /\ (a.action = "EXIT") <=> (prev # 0 /\ new = 0)
    /\ a.action = "ENTER_LONG_SPREAD" => a.long = pos.ticker_a /\ a.short = pos.ticker_b
    /\ a.action = "ENTER_SHORT_SPREAD" => a.long = pos.ticker_b /\ a.short = pos.ticker_a

\* C12: update returns a trade action iff the signal changes on that call,
\* ENTER_LONG_SPREAD exactly on 0 -> +1 with long = ticker_a and short =
\* ticker_b, ENTER_SHORT_SPREAD exactly on 0 -> -1 with long = ticker_b and
\* short = ticker_a, EXIT exactly on +1 -> 0 or -1 -> 0, otherwise None; per
\* pair the actions alternate between ENTER and EXIT, starting with an ENTER.
C12_ActionIffTransition ==
    /\ [][\A k \in DOMAIN rt_hist :
             Len(rt_hist'[k]) = Len(rt_hist[k]) + 1 =>
                 ActionMatchesTransition(rt_positions[k].signal,
                                         rt_positions'[k].signal,
                                         rt_hist'[k][Len(rt_hist'[k])].action,
                                         rt_positions[k])]_vars
    /\ [](\A k \in DOMAIN rt_hist :
             \A i \in 1..Len(HistActions(k)) :
                 IsEnter(HistActions(k)[i]) <=> (i % 2 = 1))

\* C12 witness: a pair that emitted ENTER_SHORT_SPREAD, EXIT and
\* ENTER_LONG_SPREAD in this order.
C12_Witness ==
    \E k \in DOMAIN rt_hist :
        /\ Len(HistActions(k)) = 3
        /\ HistActions(k)[1].action = "ENTER_SHORT_SPREAD"
        /\ HistActions(k)[1].long = rt_positions[k].ticker_b
        /\ HistActions(k)[2].action = "EXIT"
        /\ HistActions(k)[3].action = "ENTER_LONG_SPREAD"

\* C13 (as claimed): no failure of a collaborator during a tick ends the poll
\* loop.
C13_LoopSurvives == rt_pc # "terminated"

ShareDollars == {-7, 0, 6, 7, 2500}

\* n shares at a price cost at most dollar_amount, and one more would cost
\* more (toward zero for a negative amount).
SharesWithin(n, price, dollar_amount) ==
    IF price[1] <= 0 THEN n = 0
    ELSE IF dollar_amount >= 0
    THEN /\ n * price[1] <= dollar_amount * price[2]
         /\ dollar_amount * price[2] < (n + 1) * price[1]
    ELSE /\ n * price[1] >= dollar_amount * price[2]
         /\ dollar_amount * price[2] > (n - 1) * price[1]

\* C14: compute_shares returns 0 when price <= 0 and otherwise the quotient
\* dollar_amount / price truncated toward zero, so for price > 0 and
\* dollar_amount >= 0 the result n satisfies n*price <= dollar_amount <
\* (n+1)*price; the dollar value of each leg of an action never exceeds
\* MAX_EXPOSURE_PER_PAIR.
C14_SharesTruncated ==
    \A k \in DOMAIN rt_hist : \A i \in 1..Len(HistActions(k)) :
        LET a == HistActions(k)[i]
        IN  /\ SharesWithin(a.shares_a, a.price_a, MAX_EXPOSURE_PER_PAIR)
            /\ SharesWithin(a.shares_b, a.price_b, MAX_EXPOSURE_PER_PAIR)
            /\ a.shares_a * a.price_a[1] <= MAX_EXPOSURE_PER_PAIR * a.price_a[2]
            /\ a.shares_b * a.price_b[1] <= MAX_EXPOSURE_PER_PAIR * a.price_b[2]
            /\ \A d \in ShareDollars :
                   /\ SharesWithin(compute_shares(a.price_a, d), a.price_a, d)
                   /\ SharesWithin(compute_shares(a.price_b, d), a.price_b, d)

\* C14 witness: an action sized at a price that does not divide the cap,
\* 714 shares at 3.50, and at a price of 0, no share.
C14_Witness ==
    \E k \in DOMAIN rt_hist : \E i \in 1..Len(HistActions(k)) :
        LET a == HistActions(k)[i]
        IN  /\ a.price_a = <<0, 1>> /\ a.shares_a = 0
            /\ a.price_b = <<7, 2>> /\ a.shares_b = 714

\* C23: a tick whose fetch fails or returns no data leaves every
\* PairPosition as it was, emits and logs no action and does not rewrite the
\* positions file; on a tick that fetched prices, a pair one of whose tickers
\* is missing keeps its state and emits no action.
C23_SkippedTickHasNoEffect ==
    [][rt_tick' = rt_tick + 1 =>
          /\ rt_last'.fetched \in {"raised", "empty"} =>
                 /\ rt_positions' = rt_positions
                 /\ rt_hist' = rt_hist
                 /\ rt_files' = rt_files
          /\ (rt_last'.fetched = "ok" /\ rt_last' # rt_last) =>
                 \A k \in DOMAIN rt_positions :
                     ~rt_last'.present[k] =>
                         /\ rt_positions'[k] = rt_positions[k]
                         /\ rt_hist'[k] = rt_hist[k]]_vars

\* C23 witness: a pair that entered on the first tick went through a second
\* tick that did not observe it and a third that fetched prices without one
\* of its tickers, and is still in the position it entered.
C23_Witness ==
    /\ rt_tick = 3
    /\ rt_last.fetched = "ok"
    /\ \E k \in DOMAIN rt_positions :
           /\ ~rt_last.present[k]
           /\ Len(rt_hist[k]) = 1
           /\ rt_positions[k].signal = 1
           /\ rt_positions[k].entry_time = 1
           /\ rt_files.positions = 3

\* C24 (as claimed): on a tick on which the trailing standard deviation of a
\* pair's spread is below the floor, no action is emitted for the pair and
\* its signal, entry_z and entry_time do not change, flat or in a position.
C24_FlooredTickIsNoSignal ==
    [][(rt_tick' = rt_tick + 1 /\ rt_last'.fetched = "ok"
           /\ rt_hist' # rt_hist) =>
          \A k \in DOMAIN rt_positions :
              rt_last'.floored[k] =>
                  /\ rt_positions'[k] = rt_positions[k]
                  /\ rt_hist'[k][Len(rt_hist'[k])].action = None]_vars

\* Dollars of the two legs of an ENTER action at sizing time, as a rational.
GrossOfAction(a) ==
    RAdd(RMul(RInt(a.shares_a), a.price_a), RMul(RInt(a.shares_b), a.price_b))

\* Total gross dollars of the pairs in a position, each at its sizing.
RECURSIVE GrossExposure(_)
GrossExposure(k) ==
    IF k = 0 THEN RZero
    ELSE RAdd(GrossExposure(k - 1),
              IF rt_positions[k].signal = 0 THEN RZero
              ELSE GrossOfAction(HistActions(k)[Len(HistActions(k))]))

\* C25 (as claimed): for a table of up to MAX_PAIRS pairs the total gross
\* dollar exposure of the pairs in a position, each taken at its sizing,
\* never exceeds $25,000 and never exceeds TOTAL_CAPITAL.
C25_GrossWithinLimits ==
    Len(rt_positions) <= MAX_PAIRS =>
        /\ ~RLt(RInt(25000), GrossExposure(Len(rt_positions)))
        /\ ~RLt(RInt(TOTAL_CAPITAL), GrossExposure(Len(rt_positions)))

(***************************************************************************)
(* live_feed/alpaca_client.py: execute_trade, handed the actions run_trader *)
(* emits, in the order it emits them                                       *)
(***************************************************************************)
\* The tickers of the table.
TableTickers(positions) ==
    {positions[k].ticker_a : k \in DOMAIN positions}
        \cup {positions[k].ticker_b : k \in DOMAIN positions}

TablePairs(positions) ==
    {<<positions[k].ticker_a, positions[k].ticker_b>> : k \in DOMAIN positions}

\* The account before any order: no order sent, no share held.  br_legs is
\* the part of the account each pair's entry put there.
BrokerStart(positions) ==
    /\ br_done = 0
    /\ br_orders = <<>>
    /\ br_shares = [t \in TableTickers(positions) |-> 0]
    /\ br_legs = [p \in TablePairs(positions) |->
                     [t \in TableTickers(positions) |-> 0]]

BrokerIdle == BrokerStart(<<>>)

\* Two pairs with a ticker in common.
ExecConfigs ==
    <<[ticker_a |-> "KO", ticker_b |-> "PEP", hedge_ratio |-> <<1, 1>>,
       sector |-> "Consumer Staples"],
      [ticker_a |-> "KO", ticker_b |-> "MNST", hedge_ratio |-> <<3, 2>>,
       sector |-> "Consumer Staples"]>>

ExecInit ==
    /\ LiveStart("loop", Trackers(ExecConfigs))
    /\ BrokerStart(Trackers(ExecConfigs))

\* The actions run_trader appended to `actions`, tick after tick and within
\* a tick in the order of the table.
RECURSIVE EmittedFrom(_, _)
EmittedFrom(t, k) ==
    IF t > rt_tick THEN <<>>
    ELSE IF k > Len(rt_positions) THEN EmittedFrom(t + 1, 1)
    ELSE SelectSeq(HistActions(k), LAMBDA a : a.timestamp = t) \o EmittedFrom(t, k + 1)

Emitted == EmittedFrom(1, 1)

\* action.get(key, default).
Get(action, key, default) == IF key \in DOMAIN action THEN action[key] ELSE default

\* Lines 123-126: the tickers and quantities of the two orders of an entry.
EntryOrders(action) ==
    Let(Get(action, "shares_long", Get(action, "shares_a", 0)), LAMBDA shares_long :
    Let(Get(action, "shares_short", Get(action, "shares_b", 0)), LAMBDA shares_short :
        (IF shares_long > 0
         THEN <<[symbol |-> action.long, qty |-> shares_long, side |-> "BUY"]>>
         ELSE <<>>)
        \o (IF shares_short > 0
            THEN <<[symbol |-> action.short, qty |-> shares_short, side |-> "SELL"]>>
            ELSE <<>>)))

\* Lines 138-141: the two positions an exit closes.
ExitOrders(action) ==
    <<[symbol |-> action.pair[1], qty |-> 0, side |-> "CLOSE"],
      [symbol |-> action.pair[2], qty |-> 0, side |-> "CLOSE"]>>

\* Lines 146-167: the account after the orders, each filled in full; closing
\* a position sells or covers whatever the account holds of the ticker.
RECURSIVE Filled(_, _, _)
Filled(shares, orders, k) ==
    IF k > Len(orders) THEN shares
    ELSE Filled([shares EXCEPT ![orders[k].symbol] =
                    CASE orders[k].side = "BUY" -> @ + orders[k].qty
                      [] orders[k].side = "SELL" -> @ - orders[k].qty
                      [] OTHER -> 0],
                orders, k + 1)

\* Lines 111-143: execute_trade on the next action emitted.
ExecuteTrade ==
    /\ br_done < Len(Emitted)
    /\ br_done' = br_done + 1
    /\ \E action \in {Emitted[br_done + 1]} :
       \E orders \in {IF IsEnter(action) THEN EntryOrders(action)
                      ELSE ExitOrders(action)} :
          /\ br_orders' = br_orders \o orders
          /\ br_shares' = Filled(br_shares, orders, 1)
          /\ br_legs' = [br_legs EXCEPT ![action.pair] =
                 IF IsEnter(action)
                 THEN Filled([t \in DOMAIN br_shares |-> 0], orders, 1)
                 ELSE [t \in DOMAIN br_shares |-> 0]]
    /\ UNCHANGED <<gs_vars, bw_vars, bt_vars, sc_vars, lv_vars, mn_vars, ps_vars>>

\* The step executes the action a.
Executes(a) == br_done' = br_done + 1 /\ Emitted[br_done'] = a

\* The orders the step sent.
OrdersSent == SubSeq(br_orders', Len(br_orders) + 1, Len(br_orders'))

\* The share count run_trader computed from the price of ticker t.
OwnShares(a, t) == IF t = a.pair[1] THEN a.shares_a ELSE a.shares_b

\* C26 (as claimed): for an ENTER action built by run_trader, the BUY order
\* is for the long ticker, the SELL order for the short ticker, and each
\* carries the share count computed from its own ticker's price: shares_a for
\* ticker_a, shares_b for ticker_b, whichever leg is long.
C26_OrdersCarryOwnShares ==
    [][\A a \in {Emitted[i] : i \in 1..Len(Emitted)} :
          (Executes(a) /\ IsEnter(a)) =>
              \A i \in 1..Len(OrdersSent) :
                  /\ OrdersSent[i].side = "BUY" => OrdersSent[i].symbol = a.long
                  /\ OrdersSent[i].side = "SELL" => OrdersSent[i].symbol = a.short
                  /\ OrdersSent[i].qty = OwnShares(a, OrdersSent[i].symbol)]_vars

\* C27 (as claimed): executing the EXIT of a pair takes out of the account
\* what that pair's entry put there and nothing else; the shares another
\* pair holds in a ticker the two have in common stay.
C27_ExitClosesOwnLegs ==
    [][\A a \in {Emitted[i] : i \in 1..Len(Emitted)} :
          (Executes(a) /\ a.action = "EXIT") =>
              \A t \in DOMAIN br_shares :
                  br_shares'[t] = br_shares[t] - br_legs[a.pair][t]]_vars

(***************************************************************************)
(* main.py: main, around its call of run_backtest (run 1)                  *)
(***************************************************************************)
MainResultsEmptyNever(results) == FALSE

\* Line 53: results.empty, of the table run_backtest returned.
MainResultsEmpty(results) == Len(results) = 0

\* config.py line 38: the provider name the repository ships.
PROVIDER == "yfinance"

\* data/provider.py lines 85-87: the names get_provider knows.
providers == {"alpaca"}

\* The names a configuration may hold.
ProviderNames == {PROVIDER, "polygon", "alpaca"}

MainStart(pc, name) ==
    /\ mn_pc = pc
    /\ mn_calls = <<>>
    /\ mn_exit = 0
    /\ mn_provider = name

MainIdle == MainStart("idle", "None")

\* Lines 41-51: main has called run_backtest.
MainInit == \E name \in providers : MainStart("backtest", name)

\* Lines 16-22: main starts under a configuration.
BootInit == \E name \in ProviderNames : MainStart("start", name)

\* data/provider.py lines 83-92 and 35-38, called at main.py line 23:
\* get_provider raises ValueError for a name it does not know and otherwise
\* builds the provider, which reads its keys from the environment.
MainGetProvider ==
    /\ mn_pc = "start"
    /\ \E keys_set \in BOOLEAN :
          IF mn_provider \notin providers
          THEN /\ mn_calls' = Append(mn_calls, "raise ValueError")
               /\ mn_pc' = "raised"
               /\ mn_exit' = 1
          ELSE IF ~keys_set
          THEN /\ mn_calls' = Append(mn_calls, "raise KeyError")
               /\ mn_pc' = "raised"
               /\ mn_exit' = 1
          ELSE /\ mn_calls' = Append(mn_calls, "get_provider")
               /\ mn_pc' = "fetch"
               /\ UNCHANGED mn_exit
    /\ UNCHANGED <<mn_provider, gs_vars, bw_vars, bt_vars, sc_vars, lv_vars, ps_vars, br_vars>>

\* Lines 25-51: the prices are fetched and run_backtest is called on them.
MainGetPrices ==
    /\ mn_pc = "fetch"
    /\ mn_calls' = Append(mn_calls, "get_prices")
    /\ mn_pc' = "backtest"
    /\ \E n \in 0..MaxN, params \in BTParams :
       \E prices \in BTPriceMatrices(n) :
          /\ bt_in' = [r \in Runs |->
                 IF r = 1 THEN BTArgs(prices, StrictDates(n), n, params) ELSE BTOff]
          /\ bt_pc' = [r \in Runs |-> IF r = 1 THEN "loop" ELSE "off"]
    /\ UNCHANGED <<mn_exit, mn_provider, bt_start, bt_results, bt_df, bt_windows, bt_wlog,
                   coint_memo, gs_vars, bw_vars, sc_vars, lv_vars, ps_vars, br_vars>>

\* Lines 41-51: run_backtest raises, and main with it.
MainRaise ==
    /\ mn_pc = "backtest"
    /\ bt_pc[1] = "raised"
    /\ mn_pc' = "raised"
    /\ mn_exit' = 1
    /\ UNCHANGED <<mn_calls, mn_provider, gs_vars, bw_vars, bt_vars, sc_vars, lv_vars, ps_vars, br_vars>>

\* Lines 53-55: the message and sys.exit(1).
MainNoResults ==
    /\ mn_pc = "backtest"
    /\ bt_pc[1] = "returned"
    /\ MainResultsEmpty(bt_df[1])
    /\ mn_calls' = Append(mn_calls, "print: No trades generated.")
    /\ mn_pc' = "exited"
    /\ mn_exit' = 1
    /\ UNCHANGED <<mn_provider, gs_vars, bw_vars, bt_vars, sc_vars, lv_vars, ps_vars, br_vars>>

\* Lines 57-60.
MainMetrics ==
    /\ mn_pc = "backtest"
    /\ bt_pc[1] = "returned"
    /\ ~MainResultsEmpty(bt_df[1])
    /\ mn_calls' = mn_calls \o <<"compute_metrics", "print_metrics">>
    /\ mn_pc' = "plot"
    /\ UNCHANGED <<mn_exit, mn_provider, gs_vars, bw_vars, bt_vars, sc_vars, lv_vars, ps_vars, br_vars>>

\* Lines 62-66.
MainPlot ==
    /\ mn_pc = "plot"
    /\ mn_calls' = Append(mn_calls, "plot_equity_curve")
    /\ mn_pc' = "done"
    /\ UNCHANGED <<mn_exit, mn_provider, gs_vars, bw_vars, bt_vars, sc_vars, lv_vars, ps_vars, br_vars>>

(***************************************************************************)
(* Claims about main (checked under SpecMain)                              *)
(***************************************************************************)
MainCalled(f) == \E i \in 1..Len(mn_calls) : mn_calls[i] = f

\* C15: when total_sessions < training_window + trading_window, so that no
\* window is processed and the final result is empty, main ends with the
\* no-results outcome, the message and exit status 1, and neither
\* compute_metrics nor plot_equity_curve is called; an empty table is never
\* handed to metrics or plotting.
C15_EmptyResultIsTerminal ==
    /\ (bt_in[1].n < bt_in[1].training_window + bt_in[1].trading_window
        /\ bt_pc[1] = "returned") =>
           /\ bt_df[1] = <<>>
           /\ mn_pc \in {"backtest", "exited"}
           /\ ~MainCalled("compute_metrics") /\ ~MainCalled("plot_equity_curve")
           /\ mn_pc = "exited" =>
                  mn_exit = 1 /\ mn_calls = <<"print: No trades generated.">>
    /\ (MainCalled("compute_metrics") \/ MainCalled("plot_equity_curve")) =>
           bt_df[1] # <<>>

\* C15 witness: main has ended with the no-results outcome on a price matrix
\* that has sessions, but fewer than one training and one trading window.
C15_Witness ==
    /\ mn_pc = "exited" /\ mn_exit = 1
    /\ bt_in[1].n > 0
    /\ bt_in[1].n < bt_in[1].training_window + bt_in[1].trading_window
    /\ bt_windows[1] = <<>>

(***************************************************************************)
(* strategy/scanner.py run as a program, and live_feed/trader.py:          *)
(* load_pairs.  fs maps the path of a file that exists to its content.     *)
(***************************************************************************)
TopPairsFile == "top_pairs.txt"
ActivePairsFile == "live_feed/active_pairs.csv"

\* scanner.py lines 188-241: the report, a text that names each pair with its
\* hedge ratio, sector and statistics.
format_output(pairs) == [text |-> "TOP STATISTICAL ARBITRAGE PAIRS", pairs |-> pairs]

\* The four fields of a pair configuration.
PairConfig(p) ==
    [ticker_a |-> p.ticker_a, ticker_b |-> p.ticker_b,
     hedge_ratio |-> p.hedge_ratio, sector |-> p.sector]

\* trader.py lines 125-131.
FallbackPairs ==
    <<[ticker_a |-> "KO", ticker_b |-> "PEP", hedge_ratio |-> <<1, 1>>,
       sector |-> "Consumer Staples"],
      [ticker_a |-> "XOM", ticker_b |-> "CVX", hedge_ratio |-> <<1, 1>>,
       sector |-> "Energy"],
      [ticker_a |-> "GS", ticker_b |-> "MS", hedge_ratio |-> <<1, 1>>,
       sector |-> "Financials"],
      [ticker_a |-> "JPM", ticker_b |-> "BAC", hedge_ratio |-> <<1, 1>>,
       sector |-> "Financials"],
      [ticker_a |-> "HD", ticker_b |-> "LOW", hedge_ratio |-> <<1, 1>>,
       sector |-> "Consumer Discretionary"]>>

\* trader.py lines 114-131: the rows of active_pairs.csv if the file exists,
\* the fallback pairs if not.
load_pairs(files) ==
    IF ActivePairsFile \in DOMAIN files
    THEN files[ActivePairsFile]
    ELSE FallbackPairs

NoFiles == [f \in {} |-> <<>>]

\* An active_pairs.csv left in the working tree by hand.
StaleActivePairs ==
    <<[ticker_a |-> "C", ticker_b |-> "D", hedge_ratio |-> <<2, 1>>, sector |-> "Fin"]>>

PersistStart(files, pc) ==
    /\ fs = files
    /\ pair_configs = [pc |-> pc, pairs |-> <<>>]

PersistIdle == PersistStart(NoFiles, "idle")

\* The working tree before the scanner program runs.
PersistInit ==
    \E files \in {NoFiles, [f \in {ActivePairsFile} |-> StaleActivePairs]} :
        PersistStart(files, "scan")

\* scanner.py lines 287-288: scan_pairs as the program calls it.
ScanMainInit ==
    \E sectors \in ScanSectorMaps :
    \E order \in {ScanOrder(SectorGroups(ScanTickers, sectors, Len(ScanTickers)), 1)} :
    \E measured \in [1..Len(order) -> PairMeasurements] :
        ScanStart([mode |-> "scan_pairs", sectors |-> sectors, order |-> order,
                   measured |-> measured, max_pairs |-> 10, max_per_sector |-> 2],
                  "test")

\* scanner.py lines 290-296: the report is printed and written to
\* top_pairs.txt.
ScannerSave ==
    /\ pair_configs.pc = "scan"
    /\ sc_pc = "returned"
    /\ fs' = [f \in DOMAIN fs \cup {TopPairsFile} |->
                 IF f = TopPairsFile THEN format_output(sc_selected) ELSE fs[f]]
    /\ pair_configs' = [pair_configs EXCEPT !.pc = "saved"]
    /\ UNCHANGED <<gs_vars, bw_vars, bt_vars, sc_vars, lv_vars, mn_vars, br_vars>>

\* trader.py line 291: the tracker starts after the scanner has ended.
LoadPairs ==
    /\ pair_configs.pc = "saved"
    /\ pair_configs' = [pc |-> "loaded", pairs |-> load_pairs(fs)]
    /\ UNCHANGED <<fs, gs_vars, bw_vars, bt_vars, sc_vars, lv_vars, mn_vars, br_vars>>

(***************************************************************************)
(* Claims about the scanner's output and the tracker's startup (checked    *)
(* under SpecPersist)                                                      *)
(***************************************************************************)
\* C16 (as claimed): after the scanner program has selected pairs and saved
\* its output, load_pairs starts from those pairs, with their ticker_a,
\* ticker_b, hedge_ratio and sector, and not from the fallback pairs.
C16_LoadsWhatScannerSaved ==
    (pair_configs.pc = "loaded" /\ sc_selected # <<>>) =>
        /\ Len(pair_configs.pairs) = Len(sc_selected)
        /\ \A k \in DOMAIN sc_selected :
               PairConfig(pair_configs.pairs[k]) = PairConfig(sc_selected[k])

\* C20 (as claimed): no pair scan_pairs returns has a hedge ratio outside
\* [0.1, 10]; in particular none has a negative hedge ratio.
C20_HedgeRatioInRange ==
    (sc_pc = "returned" /\ sc_in.mode = "scan_pairs") =>
        \A k \in 1..Len(sc_selected) :
            /\ RLe(<<1, 10>>, sc_selected[k].hedge_ratio)
            /\ RLe(sc_selected[k].hedge_ratio, <<10, 1>>)

ExtIdle == LiveIdle /\ MainIdle /\ PersistIdle /\ BrokerIdle

(***************************************************************************)
(* Claims about the selection of scan_pairs (checked under SpecScan)       *)
(***************************************************************************)
\* The single greedy pass the claim describes, from candidate k on: a
\* candidate is left out only if max_pairs pairs are already selected or its
\* sector already holds max_per_sector of them.
RECURSIVE GreedyPass(_, _, _, _, _)
GreedyPass(candidates, k, selected, max_pairs, max_per_sector) ==
    IF k > Len(candidates) THEN selected
    ELSE IF \/ Len(selected) >= max_pairs
            \/ Cardinality({i \in 1..Len(selected) :
                               selected[i].sector = candidates[k].sector})
                   >= max_per_sector
    THEN GreedyPass(candidates, k + 1, selected, max_pairs, max_per_sector)
    ELSE GreedyPass(candidates, k + 1, Append(selected, candidates[k]),
                    max_pairs, max_per_sector)

\* C21 (as claimed): for every max_pairs >= 0 and max_per_sector >= 0 the list
\* scan_pairs returns is the greedy single pass over the candidates sorted by
\* descending score: a subsequence of them with at most max_per_sector pairs
\* of any sector and at most max_pairs pairs in total, each pairing two
\* tickers of the same sector.
C21_GreedySelection ==
    (sc_pc = "returned" /\ sc_in.mode = "scan_pairs") =>
        /\ \A i \in 1..Len(sc_candidates) : \A j \in i..Len(sc_candidates) :
               ~RLt(sc_candidates[i].score, sc_candidates[j].score)
        /\ sc_selected = GreedyPass(sc_candidates, 1, <<>>, sc_in.max_pairs,
                                    sc_in.max_per_sector)
        /\ Len(sc_selected) <= sc_in.max_pairs
        /\ \A k \in 1..Len(sc_selected) :
               /\ Cardinality({i \in 1..Len(sc_selected) :
                                  sc_selected[i].sector = sc_selected[k].sector})
                      <= sc_in.max_per_sector
               /\ SectorOf(sc_in.sectors, sc_selected[k].ticker_a)
                      = SectorOf(sc_in.sectors, sc_selected[k].ticker_b)

\* The weight row has no position.
ZeroWeights(w) == \A t \in DOMAIN w : w[t] = RZero

\* The signal table generate_signals gave for window W of run r.
WindowSignals(r, W) ==
    generate_signals(TradePrices(bt_in[r].prices, W.train_end, W.trade_end), W.pairs,
                     bt_in[r].zscore_lookback, bt_in[r].entry_z, bt_in[r].exit_z)

\* C22: in every call of generate_signals the first zscore_lookback - 1
\* sessions emit 0 for every pair and every emitted value is -1, 0 or +1;
\* the first zscore_lookback - 1 sessions of every trading segment carry zero
\* weights, and with zscore_lookback > trading_window every session does.
C22_WarmupIsFlat ==
    \A r \in Runs : bt_pc[r] # "off" =>
        /\ \A wi \in 1..Len(bt_windows[r]) :
               \A k \in 1..Len(bt_windows[r][wi].pairs) :
                  LET sig == WindowSignals(r, bt_windows[r][wi])[k]
                  IN  \A i \in 1..Len(sig) :
                         /\ sig[i] \in {-1, 0, 1}
                         /\ i <= bt_in[r].zscore_lookback - 1 => sig[i] = 0
        /\ \A e \in 1..Len(bt_wlog[r]) :
               \/ bt_wlog[r][e].row <= bt_in[r].zscore_lookback - 1
               \/ bt_in[r].zscore_lookback > bt_in[r].trading_window
               => ZeroWeights(bt_wlog[r][e].w)

\* A window traded a pair whose signal is 0 while the lookback fills and
\* opens a position on the session that fills it.
C22_Witness ==
    \E wi \in 1..Len(bt_windows[1]) :
       /\ bt_windows[1][wi].pairs # <<>>
       /\ bt_in[1].zscore_lookback = 3
       /\ LET sig == WindowSignals(1, bt_windows[1][wi])[1]
          IN  Len(sig) = 3 /\ sig[1] = 0 /\ sig[2] = 0 /\ sig[3] # 0
       /\ \E e \in 1..Len(bt_wlog[1]) :
              /\ bt_wlog[1][e].session = bt_windows[1][wi].train_end + 3
              /\ ~ZeroWeights(bt_wlog[1][e].w)

\* The weight table build_weights gave for window W of run r.
WindowWeights(r, W) ==
    build_weights(WindowSignals(r, W), W.trade_end - W.train_end, W.pairs,
                  bt_in[r].max_position_weight, bt_in[r].max_gross_leverage)

\* The weight table with the weights of its last session taken out.
WithoutLastRow(w) ==
    [i \in 1..Len(w) |-> IF i = Len(w) THEN [t \in DOMAIN w[i] |-> RZero] ELSE w[i]]

\* The row of the returned table for session s (dates are the session numbers).
BTRowAt(r, s) == CHOOSE row \in {bt_df[r][j] : j \in 1..Len(bt_df[r])} : row.date = s

\* C28: the first session of every trading segment has portfolio_return 0,
\* whatever the prices, and the weights observed on the last session of a
\* trading segment contribute to no portfolio_return: every return of the
\* segment is the one computed with those weights taken out.
C28_SegmentEdges ==
    \A r \in Runs :
        bt_pc[r] = "returned" =>
            /\ \A j \in 1..Len(bt_df[r]) :
                   BTLogAt(r, bt_df[r][j].date).row = 1
                       => bt_df[r][j].portfolio_return = RZero
            /\ \A wi \in 1..Len(bt_windows[r]) :
                   LET W == bt_windows[r][wi]
                   IN  W.pairs # <<>> =>
                           \A i \in 1..(W.trade_end - W.train_end) :
                               BTRowAt(r, W.train_end + i).portfolio_return =
                                   PortRet(WithoutLastRow(WindowWeights(r, W)),
                                           TradePrices(bt_in[r].prices, W.train_end,
                                                       W.trade_end), i)

\* C28 witness: a segment ends holding a position in a ticker whose price
\* moves into the first session of the next segment, and that session's
\* portfolio_return is 0.
C28_Witness ==
    /\ bt_pc[1] = "returned"
    /\ \E wi \in 1..(Len(bt_windows[1]) - 1) :
           LET W == bt_windows[1][wi]
               last == BTLogAt(1, W.trade_end)
           IN  /\ W.pairs # <<>>
               /\ \E t \in DOMAIN last.w :
                      /\ last.w[t] # RZero
                      /\ bt_in[1].prices[t][W.trade_end + 1] # bt_in[1].prices[t][W.trade_end]
               /\ BTLogAt(1, W.trade_end + 1).row = 1
               /\ BTRowAt(1, W.trade_end + 1).portfolio_return = RZero

\* C29: on a strictly increasing date index, with trading_window >= 1, the
\* table returned has a row for exactly the sessions with index in
\* [training_window, training_window + K * trading_window), K =
\* floor((n - training_window) / trading_window), each exactly once: the
\* trading segments follow one another without gap or overlap from session
\* training_window on, and the deduplication removes no row.
C29_RowsCoverSegments ==
    \A r \in Runs :
        bt_pc[r] = "returned" =>
            LET lo == bt_in[r].training_window
                K  == (bt_in[r].n - bt_in[r].training_window) \div bt_in[r].trading_window
                hi == lo + K * bt_in[r].trading_window
            IN  /\ bt_in[r].trading_window >= 1
                /\ \A i \in 0..(bt_in[r].n - 1) :
                       Cardinality({j \in 1..Len(bt_df[r]) :
                                       bt_df[r][j].date = bt_in[r].dates[i + 1]})
                           = IF lo <= i /\ i < hi THEN 1 ELSE 0
                /\ Len(bt_df[r]) = Len(bt_results[r])
                /\ Len(bt_df[r]) = IF hi > lo THEN hi - lo ELSE 0
                /\ \A wi \in 1..Len(bt_windows[r]) :
                       /\ bt_windows[r][wi].trade_end - bt_windows[r][wi].train_end
                              = bt_in[r].trading_window
                       /\ bt_windows[r][wi].train_end =
                              IF wi = 1 THEN lo ELSE bt_windows[r][wi - 1].trade_end

\* C29 witness: a run of two or more windows that leaves sessions at the end
\* of the matrix without a row.
C29_Witness ==
    /\ bt_pc[1] = "returned"
    /\ Len(bt_windows[1]) >= 2
    /\ bt_in[1].trading_window >= 2
    /\ (bt_in[1].n - bt_in[1].training_window) % bt_in[1].trading_window # 0
    /\ Len(bt_df[1]) = Len(bt_windows[1]) * bt_in[1].trading_window
    /\ Len(bt_df[1]) < bt_in[1].n - bt_in[1].training_window

\* C30 (as claimed): under the shipped configuration main resolves its
\* provider and goes on to the backtest; get_provider raises ValueError only
\* for a name it has not registered, and before any price is fetched.
C30_ShippedProviderResolves ==
    /\ (mn_provider = PROVIDER /\ mn_pc \notin {"idle", "start"}) =>
           /\ MainCalled("get_provider")
           /\ ~MainCalled("raise ValueError")
    /\ MainCalled("raise ValueError") =>
           /\ mn_provider \notin providers
           /\ ~MainCalled("get_prices")

(***************************************************************************)
(* Specifications                                                          *)
(***************************************************************************)
GSNext == GSStep

BWNext == BWAccumulate \/ BWClip \/ BWScale \/ BWRecord

BTNext ==
    \E r \in Runs :
        BTWindowRaise(r) \/ BTWindowNoPairs(r) \/ BTWindowPairs(r) \/ BTFinish(r)

ScanNext == FindPairsCall \/ ScanPair \/ ScanSort \/ ScanSelect \/ ScanReturn

InitSig == GSInit /\ BWIdle /\ BTIdle /\ ScanIdle /\ ExtIdle

InitW == BWInit /\ GSIdle /\ BTIdle /\ ScanIdle /\ ExtIdle

InitBT == BTInit /\ GSIdle /\ BWIdle /\ ScanIdle /\ ExtIdle

InitDates == BTInitLoose /\ GSIdle /\ BWIdle /\ ScanIdle /\ ExtIdle

InitTwo == BTInitTwo /\ GSIdle /\ BWIdle /\ ScanIdle /\ ExtIdle

InitScan == ScanInit /\ GSIdle /\ BWIdle /\ BTIdle /\ ExtIdle

SpecSig == InitSig /\ [][GSNext]_vars

SpecW == InitW /\ [][BWNext]_vars

SpecBT == InitBT /\ [][BTNext]_vars

SpecDates == InitDates /\ [][BTNext]_vars

SpecTwo == InitTwo /\ [][BTNext]_vars

SpecScan == InitScan /\ [][ScanNext]_vars

LiveNext == RTSkip \/ RTTick

InitLive == LiveInit /\ GSIdle /\ BWIdle /\ BTIdle /\ ScanIdle /\ MainIdle /\ PersistIdle /\ BrokerIdle

SpecLive == InitLive /\ [][LiveNext]_vars

InitBook == BookInit /\ GSIdle /\ BWIdle /\ BTIdle /\ ScanIdle /\ MainIdle /\ PersistIdle /\ BrokerIdle

SpecBook == InitBook /\ [][LiveNext]_vars

ExecNext == RTSkip \/ RTTick \/ ExecuteTrade

InitExec == ExecInit /\ GSIdle /\ BWIdle /\ BTIdle /\ ScanIdle /\ MainIdle /\ PersistIdle

SpecExec == InitExec /\ [][ExecNext]_vars

MainNext == BTNext \/ MainRaise \/ MainNoResults \/ MainMetrics \/ MainPlot

InitMain == BTInit /\ MainInit /\ GSIdle /\ BWIdle /\ ScanIdle /\ LiveIdle /\ PersistIdle /\ BrokerIdle

SpecMain == InitMain /\ [][MainNext]_vars

BootNext == MainGetProvider \/ MainGetPrices \/ MainNext

InitBoot == BootInit /\ BTIdle /\ GSIdle /\ BWIdle /\ ScanIdle /\ LiveIdle /\ PersistIdle /\ BrokerIdle

SpecBoot == InitBoot /\ [][BootNext]_vars

PersistNext == ScanPair \/ ScanSort \/ ScanSelect \/ ScanReturn \/ ScannerSave \/ LoadPairs

InitPersist == ScanMainInit /\ PersistInit /\ GSIdle /\ BWIdle /\ BTIdle /\ LiveIdle /\ MainIdle /\ BrokerIdle

SpecPersist == InitPersist /\ [][PersistNext]_vars

=============================================================================
